---------------------------- MODULE Spec2Model ----------------------------
(***************************************************************************)
(* Vietnamese Sign Language converter: classification of POS-tagged tokens *)
(* into grammatical buckets, SOV reordering, dictionary store (load,       *)
(* reload, lookup) and the conversion entry points.                        *)
(*                                                                         *)
(* Text is modelled as a sequence of characters so that lower(), upper(),  *)
(* strip(), replace() and split() are computed.  A character is written   *)
(* as its base letter, its shape (a( a^ e^ o^ o+ u+ dd) and its tone as a  *)
(* digit (1 acute, 2 grave, 3 hook, 4 tilde, 5 dot): "o^5" is one          *)
(* character.                                                              *)
(***************************************************************************)
EXTENDS Naturals, Integers, Sequences, FiniteSets, TLC

\* ------------------------------------------------------------------ bounds
MaxLen == 3
MaxLenApi == 1
MaxLenReload == 1
MaxLenConc == 2
MaxLenSeq == 3
MaxLenPair == 2
MaxCalls == 3
MaxTagged == 2
MaxLines == 3
MaxReloads == 2

Threads == {1, 2}

\* ------------------------------------------------------- text primitives
CasePairs ==
    { <<"a", "A">>, <<"a(", "A(">>, <<"a1", "A1">>, <<"a2", "A2">>, <<"a5", "A5">>, <<"a^", "A^">>,
      <<"a^1", "A^1">>, <<"a^2", "A^2">>, <<"b", "B">>, <<"c", "C">>, <<"d", "D">>, <<"dd", "DD">>,
      <<"e", "E">>, <<"e5", "E5">>, <<"e^", "E^">>, <<"e^2", "E^2">>, <<"e^5", "E^5">>, <<"f", "F">>,
      <<"g", "G">>, <<"h", "H">>, <<"i", "I">>, <<"j", "J">>, <<"k", "K">>, <<"l", "L">>,
      <<"m", "M">>, <<"n", "N">>, <<"o", "O">>, <<"o+", "O+">>, <<"o+1", "O+1">>, <<"o+2", "O+2">>, <<"o1", "O1">>,
      <<"o5", "O5">>, <<"o^", "O^">>, <<"o^1", "O^1">>, <<"o^5", "O^5">>, <<"p", "P">>, <<"q", "Q">>,
      <<"r", "R">>, <<"s", "S">>, <<"t", "T">>, <<"u", "U">>, <<"u1", "U1">>, <<"v", "V">>,
      <<"w", "W">>, <<"x", "X">>, <<"y", "Y">>, <<"z", "Z">> }

LowerChar(c) ==
    IF \E p \in CasePairs : p[2] = c
    THEN (CHOOSE p \in CasePairs : p[2] = c)[1]
    ELSE c

UpperChar(c) ==
    IF \E p \in CasePairs : p[1] = c
    THEN (CHOOSE p \in CasePairs : p[1] = c)[2]
    ELSE c

\* str.lower()
Lower(s) == [i \in 1..Len(s) |-> LowerChar(s[i])]

\* str.upper()
Upper(s) == [i \in 1..Len(s) |-> UpperChar(s[i])]

\* str.replace(a, b) for one-character a and b
Replace(s, a, b) == [i \in 1..Len(s) |-> IF s[i] = a THEN b ELSE s[i]]

Whitespace == {" ", "\t", "\n", "\r"}

RECURSIVE LStrip(_)
LStrip(s) ==
    IF s = <<>> THEN s
    ELSE IF Head(s) \in Whitespace THEN LStrip(Tail(s)) ELSE s

RECURSIVE RStrip(_)
RStrip(s) ==
    IF s = <<>> THEN s
    ELSE IF s[Len(s)] \in Whitespace THEN RStrip(SubSeq(s, 1, Len(s) - 1)) ELSE s

\* str.strip()
Strip(s) == RStrip(LStrip(s))

\* c in s
Contains(s, c) == \E i \in 1..Len(s) : s[i] = c

\* s.split(c, 1) when c occurs in s: the text before and after the first c
SplitFirst(s, c) ==
    LET k == CHOOSE i \in 1..Len(s) : s[i] = c /\ \A j \in 1..(i - 1) : s[j] # c
    IN  <<SubSeq(s, 1, k - 1), SubSeq(s, k + 1, Len(s))>>

\* " ".join(words)
RECURSIVE JoinWords(_)
JoinWords(ws) ==
    IF ws = <<>> THEN <<>>
    ELSE IF Len(ws) = 1 THEN ws[1]
    ELSE ws[1] \o <<" ">> \o JoinWords(Tail(ws))

\* ------------------------------------------------------------ dictionaries
\* A dictionary is a function from keys to values; {} is the empty function.
EmptyDict == <<>>

DictSet(d, k, v) == [x \in (DOMAIN d) \cup {k} |-> IF x = k THEN v ELSE d[x]]

DictOfPairs(ps) == [k \in {p[1] : p \in ps} |-> (CHOOSE p \in ps : p[1] = k)[2]]

\* ------------------------------------------------ dictionary source files
FileMissing == [kind |-> "missing"]
FileUnreadable == [kind |-> "unreadable"]
FileText(ls) == [kind |-> "text", lines |-> ls]

get_fallback_dictionary ==
    DictOfPairs({
      <<<<"t", "o^", "i">>, <<"T", "O^", "I">>>>,
      <<<<"b", "a5", "n">>, <<"B", "A5", "N">>>>,
      <<<<"h", "o5">>, <<"H", "O5">>>>,
      <<<<"c", "h", "u1", "n", "g", " ", "t", "o^", "i">>, <<"C", "H", "U1", "N", "G", "-", "T", "O^", "I">>>>,
      <<<<"c", "h", "u1", "n", "g", " ", "t", "a">>, <<"C", "H", "U1", "N", "G", "-", "T", "A">>>>,
      <<<<"dd", "i">>, <<"DD", "I">>>>,
      <<<<"a(", "n">>, <<"A(", "N">>>>,
      <<<<"h", "o5", "c">>, <<"H", "O5", "C">>>>,
      <<<<"l", "a2", "m">>, <<"L", "A2", "M">>>>,
      <<<<"n", "o1", "i">>, <<"N", "O1", "I">>>>,
      <<<<"m", "o^5", "t">>, <<"1">>>>,
      <<<<"h", "a", "i">>, <<"2">>>>,
      <<<<"b", "a">>, <<"3">>>>,
      <<<<"b", "o^1", "n">>, <<"4">>>>,
      <<<<"n", "a(", "m">>, <<"5">>>>,
      <<<<"k", "h", "o^", "n", "g">>, <<"K", "H", "O^", "N", "G">>>>,
      <<<<"c", "o1">>, <<"C", "O1">>>>,
      <<<<"r", "a^1", "t">>, <<"R", "A^1", "T">>>>,
      <<<<"v", "a2">>, <<"V", "A2">>>> })

\* Variant of the line parser in which the first line of a word wins.
CoreParseLine_keeping_first(dictionary, raw) ==
    LET line == Strip(raw) IN
    IF line = <<>> \/ Head(line) = "#" THEN dictionary
    ELSE IF Contains(line, "=")
    THEN LET parts == SplitFirst(line, "=")
             vietnamese_word == Lower(Strip(parts[1]))
             sign_word == Upper(Strip(parts[2]))
         IN  IF /\ vietnamese_word # <<>>
                /\ sign_word # <<>>
                /\ vietnamese_word \notin DOMAIN dictionary
             THEN DictSet(dictionary, vietnamese_word, sign_word)
             ELSE dictionary
    ELSE dictionary

\* Variant of the line parser that gives the load up at a line without
\* "=": the entries read so far are dropped.
CoreParseLine_aborting(dictionary, raw) ==
    LET line == Strip(raw) IN
    IF line = <<>> \/ Head(line) = "#" THEN dictionary
    ELSE IF Contains(line, "=")
    THEN LET parts == SplitFirst(line, "=")
             vietnamese_word == Lower(Strip(parts[1]))
             sign_word == Upper(Strip(parts[2]))
         IN  IF vietnamese_word # <<>> /\ sign_word # <<>>
             THEN DictSet(dictionary, vietnamese_word, sign_word)
             ELSE dictionary
    ELSE EmptyDict

\* One iteration of the core loader's loop over the lines of the file.
CoreParseLine(dictionary, raw) ==
    LET line == Strip(raw) IN
    IF line = <<>> \/ Head(line) = "#" THEN dictionary
    ELSE IF Contains(line, "=")
    THEN LET parts == SplitFirst(line, "=")
             vietnamese_word == Lower(Strip(parts[1]))
             sign_word == Upper(Strip(parts[2]))
         IN  IF vietnamese_word # <<>> /\ sign_word # <<>>
             THEN DictSet(dictionary, vietnamese_word, sign_word)
             ELSE dictionary
    ELSE dictionary

RECURSIVE CoreParseLines(_, _)
CoreParseLines(dictionary, ls) ==
    IF ls = <<>> THEN dictionary
    ELSE CoreParseLines(CoreParseLine(dictionary, Head(ls)), Tail(ls))

\* core _load_dictionary_from_file
load_dictionary_from_file(file) ==
    IF file.kind = "missing" THEN get_fallback_dictionary
    ELSE IF file.kind = "unreadable" THEN get_fallback_dictionary
    ELSE CoreParseLines(EmptyDict, file.lines)


\* --------------------------------------------------------- input tokens
\* The closed tag set of the tagger (values of _convert_to_ud_tag's mapping).
ClosedTags ==
    { "NOUN", "PROPN", "VERB", "ADJ", "ADV", "NUM", "PRON", "ADP", "PUNCT",
      "CCONJ", "SCONJ", "DET", "PART", "INTJ", "AUX", "X" }

\* (word, tag) pairs a request is built from: one per branch of the
\* classifier, among them a time word tagged NOUN and a capitalised
\* multi-word time expression whose tag ("SYM") is outside the closed set.
InputTokens ==
    { << <<"T", "o^", "i">>, "PRON" >>,
      << <<"s", "a1", "n", "g">>, "NOUN" >>,
      << <<"H", "a2", " ", "N", "o^5", "i">>, "PROPN" >>,
      << <<"a(", "n">>, "VERB" >>,
      << <<"dd", "e5", "p">>, "ADJ" >>,
      << <<"r", "a^1", "t">>, "ADV" >>,
      << <<"h", "a", "i">>, "NUM" >>,
      << <<"t", "a5", "i">>, "ADP" >>,
      << <<"H", "o^", "m", " ", "n", "a", "y">>, "SYM" >>,
      << <<".">>, "PUNCT" >> }

RECURSIVE SeqsUpTo(_, _)
SeqsUpTo(S, n) ==
    IF n = 0 THEN { <<>> }
    ELSE LET shorter == SeqsUpTo(S, n - 1)
         IN  shorter \cup { Append(q, x) : q \in {r \in shorter : Len(r) = n - 1}, x \in S }

Inputs == SeqsUpTo(InputTokens, MaxLen)

ApiInputs == SeqsUpTo(InputTokens, MaxLenApi)

\* Tokens of the requests made of both converters: those of InputTokens
\* and a multi-word noun no dictionary source has.
SeqTokens ==
    InputTokens \cup { << <<"c", "o^", " ", "g", "a1", "i">>, "NOUN" >> }

SeqInputs == SeqsUpTo(SeqTokens, MaxLenSeq)

\* Tokens of the concurrent requests: their buckets depend on what the
\* same request classified before.
ConcTokens ==
    { << <<"T", "o^", "i">>, "PRON" >>,
      << <<"s", "a1", "n", "g">>, "NOUN" >>,
      << <<"a(", "n">>, "VERB" >> }

ConcInputs == SeqsUpTo(ConcTokens, MaxLenConc)

\* Tokens of the requests whose classifications are compared: a noun, a
\* verb, and two words of one tag outside the closed set, one of them a
\* time expression.
PairTokens ==
    { << <<"s", "a1", "n", "g">>, "NOUN" >>,
      << <<"a(", "n">>, "VERB" >>,
      << <<"H", "o^", "m", " ", "n", "a", "y">>, "SYM" >>,
      << <<".">>, "SYM" >> }

PairInputs == SeqsUpTo(PairTokens, MaxLenPair)

\* The dictionary sources the converter is constructed from in the
\* conversion specifications: no file (the seed mapping is used) and a
\* file of a comment and four entries.
SampleFile ==
    FileText(<< <<"#", " ", "v", "s", "l">>,
                <<"t", "o^", "i", " ", "=", " ", "T", "O^", "I">>,
                <<"h", "a2", "_", "n", "o^5", "i", " ", "=", " ", "H", "A2", "-", "N", "O^5", "I">>,
                <<"s", "a1", "n", "g", " ", "=", " ", "s", "o+1", "m">>,
                <<"a(", "n", " ", "=", " ", "A(", "N">> >>)

PipelineFiles == { FileMissing, SampleFile }

\* ------------------------------------------------------ core: classifier
BucketNames ==
    { "subjects", "objects", "verbs", "adjectives", "adverbs", "numbers",
      "pronouns", "prepositions", "time_expressions", "others" }

EmptyCategories == [b \in BucketNames |-> <<>>]

time_words ==
    { <<"h", "o^", "m", " ", "n", "a", "y">>,
      <<"n", "g", "a2", "y", " ", "m", "a", "i">>,
      <<"h", "o^", "m", " ", "q", "u", "a">>,
      <<"t", "u", "a^2", "n", " ", "n", "a2", "y">>,
      <<"t", "h", "a1", "n", "g", " ", "n", "a2", "y">>,
      <<"s", "a1", "n", "g">>,
      <<"c", "h", "i", "e^2", "u">>,
      <<"t", "o^1", "i">>,
      <<"dd", "e^", "m">>,
      <<"b", "a^", "y", " ", "g", "i", "o+2">>,
      <<"l", "u1", "c", " ", "n", "a2", "y">> }

is_time_expression(word) == word \in time_words

\* Variant of bucket_for whose subject test forgets the verb bucket.
bucket_for_ignoring_verbs(cats, word, pos) ==
    LET word_lower == Lower(word) IN
    IF pos = "PRON" THEN "pronouns"
    ELSE IF pos \in {"NOUN", "PROPN"}
    THEN IF Len(cats["subjects"]) = 0 THEN "subjects" ELSE "objects"
    ELSE IF pos = "VERB" THEN "verbs"
    ELSE IF pos = "ADJ" THEN "adjectives"
    ELSE IF pos = "ADV" THEN "adverbs"
    ELSE IF pos = "NUM" THEN "numbers"
    ELSE IF pos = "ADP" THEN "prepositions"
    ELSE IF is_time_expression(word_lower) THEN "time_expressions"
    ELSE "others"

\* Variant of bucket_for whose subject test forgets the subject bucket.
bucket_for_any_noun_before_verb(cats, word, pos) ==
    LET word_lower == Lower(word) IN
    IF pos = "PRON" THEN "pronouns"
    ELSE IF pos \in {"NOUN", "PROPN"}
    THEN IF Len(cats["verbs"]) = 0 THEN "subjects" ELSE "objects"
    ELSE IF pos = "VERB" THEN "verbs"
    ELSE IF pos = "ADJ" THEN "adjectives"
    ELSE IF pos = "ADV" THEN "adverbs"
    ELSE IF pos = "NUM" THEN "numbers"
    ELSE IF pos = "ADP" THEN "prepositions"
    ELSE IF is_time_expression(word_lower) THEN "time_expressions"
    ELSE "others"

\* Variant of bucket_for whose subject test reads the bucket of the other
\* words instead of the verb bucket.
bucket_for_testing_others(cats, word, pos) ==
    LET word_lower == Lower(word) IN
    IF pos = "PRON" THEN "pronouns"
    ELSE IF pos \in {"NOUN", "PROPN"}
    THEN IF Len(cats["subjects"]) = 0 /\ Len(cats["others"]) = 0
         THEN "subjects"
         ELSE "objects"
    ELSE IF pos = "VERB" THEN "verbs"
    ELSE IF pos = "ADJ" THEN "adjectives"
    ELSE IF pos = "ADV" THEN "adverbs"
    ELSE IF pos = "NUM" THEN "numbers"
    ELSE IF pos = "ADP" THEN "prepositions"
    ELSE IF is_time_expression(word_lower) THEN "time_expressions"
    ELSE "others"

\* The branch of the if/elif chain taken for (word, pos), given the buckets
\* filled so far.
bucket_for(cats, word, pos) ==
    LET word_lower == Lower(word) IN
    IF pos = "PRON" THEN "pronouns"
    ELSE IF pos \in {"NOUN", "PROPN"}
    THEN IF Len(cats["subjects"]) = 0 /\ Len(cats["verbs"]) = 0
         THEN "subjects"
         ELSE "objects"
    ELSE IF pos = "VERB" THEN "verbs"
    ELSE IF pos = "ADJ" THEN "adjectives"
    ELSE IF pos = "ADV" THEN "adverbs"
    ELSE IF pos = "NUM" THEN "numbers"
    ELSE IF pos = "ADP" THEN "prepositions"
    ELSE IF is_time_expression(word_lower) THEN "time_expressions"
    ELSE "others"

\* Variant of categorize_step that loses the tokens of the last branch.
categorize_step_dropping_others(cats, words, i) ==
    LET b == bucket_for(cats, words[i][1], words[i][2])
    IN  IF b = "others" THEN cats ELSE [cats EXCEPT ![b] = Append(@, i)]

\* Variant of categorize_step that inserts at the front of the bucket.
categorize_step_prepending(cats, words, i) ==
    LET b == bucket_for(cats, words[i][1], words[i][2])
    IN  [cats EXCEPT ![b] = <<i>> \o @]

\* One iteration of _categorize_words' loop.  A bucket holds references to
\* the tuples of the input list, written as their positions in it.
categorize_step(cats, words, i) ==
    LET b == bucket_for(cats, words[i][1], words[i][2])
    IN  [cats EXCEPT ![b] = Append(@, i)]

\* ------------------------------------------------------- core: reordering
\* Variant of the reordering that keeps the verb before the object.
reorder_verbs_before_objects(cats) ==
    cats["time_expressions"] \o cats["pronouns"] \o cats["subjects"]
      \o cats["adjectives"] \o cats["numbers"] \o cats["verbs"]
      \o cats["objects"] \o cats["adverbs"] \o cats["prepositions"]
      \o cats["others"]

\* Variant of the reordering that forgets the numbers bucket.
reorder_without_numbers(cats) ==
    cats["time_expressions"] \o cats["pronouns"] \o cats["subjects"]
      \o cats["adjectives"] \o cats["objects"]
      \o cats["verbs"] \o cats["adverbs"] \o cats["prepositions"]
      \o cats["others"]

reorder_for_sign_language(cats) ==
    cats["time_expressions"] \o cats["pronouns"] \o cats["subjects"]
      \o cats["adjectives"] \o cats["numbers"] \o cats["objects"]
      \o cats["verbs"] \o cats["adverbs"] \o cats["prepositions"]
      \o cats["others"]

\* [word for word, _ in reordered_structure]
final_sequence_of(words, reordered) ==
    [k \in 1..Len(reordered) |-> words[reordered[k]][1]]

\* The buckets as the (word, tag) tuples they refer to.
pos_analysis_of(words, cats) ==
    [b \in BucketNames |-> [k \in 1..Len(cats[b]) |-> words[cats[b][k]]]]

\* ----------------------------------------------------- core: the reports
normalize(word) == Replace(Lower(word), " ", "_")

\* Variant of the per-word record that looks the lowercased word up
\* without replacing its spaces.
word_detail_without_joining(dict, words, i) ==
    LET word == words[i][1]
        pos == words[i][2]
        normalized_word == Lower(word)
        has_dictionary_definition == normalized_word \in DOMAIN dict
    IN  [ index |-> i,
          original_word |-> word,
          pos_tag |-> pos,
          has_dictionary_definition |-> has_dictionary_definition,
          dictionary_action |->
              IF has_dictionary_definition
              THEN dict[normalized_word]
              ELSE Upper(word) \o <<"[", pos, "]">>,
          in_dictionary |-> has_dictionary_definition ]

\* The record _create_word_details appends for the token at position i.
word_detail(dict, words, i) ==
    LET word == words[i][1]
        pos == words[i][2]
        normalized_word == normalize(word)
        has_dictionary_definition == normalized_word \in DOMAIN dict
    IN  [ index |-> i,
          original_word |-> word,
          pos_tag |-> pos,
          has_dictionary_definition |-> has_dictionary_definition,
          dictionary_action |->
              IF has_dictionary_definition
              THEN dict[normalized_word]
              ELSE Upper(word) \o <<"[", pos, "]">>,
          in_dictionary |-> has_dictionary_definition ]

create_word_details(dict, words) ==
    [i \in 1..Len(words) |-> word_detail(dict, words, i)]

ReorderStrategyRecord ==
    [ original_order |-> "SVO (Subject-Verb-Object)",
      sign_language_order |-> "SOV (Subject-Object-Verb)",
      time_placement |-> "Beginning of sentence",
      adjective_placement |-> "After subject" ]

\* Variant of _create_analysis that counts the pronouns among the subjects.
create_analysis_counting_pronouns(original_words, categorized, final_seq) ==
    [ word_count |-> Len(original_words),
      reordered_count |-> Len(final_seq),
      structure_changes |->
          [ subjects |-> Len(categorized["subjects"]) + Len(categorized["pronouns"]),
            verbs |-> Len(categorized["verbs"]),
            objects |-> Len(categorized["objects"]),
            adjectives |-> Len(categorized["adjectives"]),
            time_expressions |-> Len(categorized["time_expressions"]),
            others |-> Len(categorized["others"]) ],
      reorder_strategy |-> ReorderStrategyRecord,
      conversion_applied |-> TRUE ]

create_analysis(original_words, categorized, final_seq) ==
    [ word_count |-> Len(original_words),
      reordered_count |-> Len(final_seq),
      structure_changes |->
          [ subjects |-> Len(categorized["subjects"]),
            verbs |-> Len(categorized["verbs"]),
            objects |-> Len(categorized["objects"]),
            adjectives |-> Len(categorized["adjectives"]),
            time_expressions |-> Len(categorized["time_expressions"]),
            others |-> Len(categorized["others"]) ],
      reorder_strategy |-> ReorderStrategyRecord,
      conversion_applied |-> TRUE ]


\* --------------------------------------------- legacy converter: loader
\* One iteration of the legacy loader's loop: no case conversion.
LegacyParseLine(dictionary, raw) ==
    LET line == Strip(raw) IN
    IF line = <<>> \/ Head(line) = "#" THEN dictionary
    ELSE IF Contains(line, "=")
    THEN LET parts == SplitFirst(line, "=")
             vietnamese_word == Strip(parts[1])
             sign_word == Strip(parts[2])
         IN  IF vietnamese_word # <<>> /\ sign_word # <<>>
             THEN DictSet(dictionary, vietnamese_word, sign_word)
             ELSE dictionary
    ELSE dictionary

RECURSIVE LegacyParseLines(_, _)
LegacyParseLines(dictionary, ls) ==
    IF ls = <<>> THEN dictionary
    ELSE LegacyParseLines(LegacyParseLine(dictionary, Head(ls)), Tail(ls))

\* legacy _load_dictionary_from_file: a failure to open leaves the
\* dictionary empty.
legacy_load_dictionary_from_file(file) ==
    IF file.kind = "missing" THEN EmptyDict
    ELSE IF file.kind = "unreadable" THEN EmptyDict
    ELSE LegacyParseLines(EmptyDict, file.lines)

\* ------------------------------- legacy converter: classifier, reordering
LegacyBucketNames ==
    { "subjects", "objects", "verbs", "adjectives", "adverbs", "numbers",
      "pronouns", "prepositions", "others" }

LegacyEmptyCategories == [b \in LegacyBucketNames |-> <<>>]

legacy_bucket_for(cats, word, pos) ==
    IF pos = "PRON" THEN "pronouns"
    ELSE IF pos \in {"NOUN", "PROPN"}
    THEN IF Len(cats["subjects"]) = 0 /\ Len(cats["verbs"]) = 0
         THEN "subjects"
         ELSE "objects"
    ELSE IF pos = "VERB" THEN "verbs"
    ELSE IF pos = "ADJ" THEN "adjectives"
    ELSE IF pos = "ADV" THEN "adverbs"
    ELSE IF pos = "NUM" THEN "numbers"
    ELSE IF pos = "ADP" THEN "prepositions"
    ELSE "others"

RECURSIVE legacy_categorize_from(_, _, _)
legacy_categorize_from(cats, words, i) ==
    IF i > Len(words) THEN cats
    ELSE LET b == legacy_bucket_for(cats, words[i][1], words[i][2])
         IN  legacy_categorize_from([cats EXCEPT ![b] = Append(@, i)], words, i + 1)

legacy_categorize_words(words) == legacy_categorize_from(LegacyEmptyCategories, words, 1)

\* Variant of the legacy reordering that keeps the verb before the object.
legacy_reorder_verbs_before_objects(cats) ==
    cats["pronouns"] \o cats["subjects"] \o cats["adjectives"] \o cats["numbers"]
      \o cats["verbs"] \o cats["objects"] \o cats["adverbs"]
      \o cats["prepositions"] \o cats["others"]

legacy_reorder_for_sign_language(cats) ==
    cats["pronouns"] \o cats["subjects"] \o cats["adjectives"] \o cats["numbers"]
      \o cats["objects"] \o cats["verbs"] \o cats["adverbs"]
      \o cats["prepositions"] \o cats["others"]

\* ------------------------------------- inputs of the dictionary scenarios
\* Lines a dictionary file is made of: two entries for the same word in
\* different case, a comment, a blank line, a line without '=', a line
\* with an empty word, a line with an empty sign, a line with two '='.
LoadLines ==
    { <<"t", "o^", "i", " ", "=", " ", "t", "a">>,
      <<"T", "o^", "i", " ", "=", " ", "T", "O^", "I">>,
      <<"#", " ", "v", "s", "l">>,
      <<" ", " ">>,
      <<"t", "o^", "i", " ", "T", "O^", "I">>,
      <<"=", " ", "T", "O^", "I">>,
      <<"t", "o^", "i", " ", "=">>,
      <<"a(", "n", "=", "a(", "n", "=", "x">>,
      <<"H", "a2", " ", "N", "o^5", "i", " ", "=", " ", "h", "n">> }

LoadFiles ==
    { FileMissing, FileUnreadable } \cup { FileText(ls) : ls \in SeqsUpTo(LoadLines, MaxLines) }

\* A second dictionary file: another sign for one word of SampleFile, one
\* new word, and the other words of SampleFile gone.
OtherFile ==
    FileText(<< <<"t", "o^", "i", " ", "=", " ", "t", "a">>,
                <<"a(", "n", " ", "=", " ", "A(", "N">> >>)

ReloadFiles == { SampleFile, OtherFile, FileMissing }

ReloadTokens ==
    { << <<"T", "o^", "i">>, "PRON" >>,
      << <<"s", "a1", "n", "g">>, "NOUN" >> }

ReloadInputs == SeqsUpTo(ReloadTokens, MaxLenReload)

\* ------------------------------------------------------------------ state
VARIABLES
    dict_file,            \* the dictionary source file on disk
    is_initialized,       \* core converter: self.is_initialized
    basic_signs,          \* core converter: self.basic_signs
    tagger_initialized,   \* tagger: self.is_initialized
    pc,                   \* per thread: position in the running call
    caller,               \* per thread: "direct" call or "api" request
    pos_tagged_words,     \* per thread: the argument of the conversion
    categories,           \* per thread: local of _categorize_words
    idx,                  \* per thread: position of the classifier's loop
    reordered_structure,  \* per thread: local of convert_to_sign_language
    final_sequence,       \* per thread: local of convert_to_sign_language
    word_details,         \* per thread: local of convert_to_sign_language
    analysis,             \* per thread: local of convert_to_sign_language
    result,               \* per thread: value returned by the conversion
    response,             \* per thread: HTTP response of the endpoint
    legacy_initialized,   \* legacy converter: self.is_initialized
    sign_dictionary,      \* legacy converter: self.sign_dictionary
    dict_id,              \* identity of the mapping object sign_dictionary refers to
    reloads,              \* number of reload_dictionary calls started
    sign_sequence,        \* per thread: local of the legacy _convert_vocabulary
    seen,                 \* per thread: identity of the mapping the membership test read
    old_count,            \* per thread: local of reload_dictionary
    new_dictionary,       \* per thread: mapping built by the running reload
    new_count,            \* per thread: local of reload_dictionary
    cls_instance,         \* core converter class: _instance (0 for None)
    cls_initialized,      \* core converter class: _initialized
    instances,            \* the converter objects allocated, by identity
    self_obj,             \* per thread: the object its running cls() call holds
    returned,             \* identities the finished cls() calls returned
    init_runs,            \* executions of the body of __init__
    calls,                \* cls() and get_instance() calls started
    pos_tags_result,      \* per thread: what pos_tag(sentence) yields in tag_sentence
    formatted_tags        \* per thread: the value tag_sentence returns

singletonVars ==
    <<cls_instance, cls_initialized, instances, self_obj, returned, init_runs, calls>>

taggerLocals == <<pos_tags_result, formatted_tags>>

sharedVars ==
    <<dict_file, is_initialized, basic_signs, tagger_initialized, singletonVars,
      taggerLocals>>

coreLocals ==
    <<categories, idx, reordered_structure, final_sequence, word_details, analysis>>

legacyShared == <<legacy_initialized, sign_dictionary, dict_id, reloads>>

legacyLocals == <<sign_sequence, seen, old_count, new_dictionary, new_count>>

legacyVars == <<legacyShared, legacyLocals>>

vars ==
    <<dict_file, is_initialized, basic_signs, tagger_initialized, pc, caller,
      pos_tagged_words, categories, idx, reordered_structure, final_sequence,
      word_details, analysis, result, response, legacy_initialized,
      sign_dictionary, dict_id, reloads, sign_sequence, seen, old_count,
      new_dictionary, new_count, cls_instance, cls_initialized, instances,
      self_obj, returned, init_runs, calls, pos_tags_result, formatted_tags>>

NoValue == [none |-> TRUE]

ErrorResult == [error |-> "Sign Language Converter is not initialized"]

HttpError(code, text) == [status |-> code, detail |-> text]

IsError(r) == "error" \in DOMAIN r

IsConversion(r) == "sign_language_sequence" \in DOMAIN r

\* The legacy converter is not part of the deployment.
LegacyAbsent ==
    /\ legacy_initialized = FALSE
    /\ sign_dictionary = NoValue
    /\ dict_id = 0
    /\ reloads = 0

\* The state of the class before any construction call; the specifications
\* that start from a constructed converter do not follow its construction.
ConstructionNotTraced ==
    /\ cls_instance = 0
    /\ cls_initialized = FALSE
    /\ instances = <<>>
    /\ self_obj = [t \in Threads |-> 0]
    /\ returned = {}
    /\ init_runs = 0
    /\ calls = 0

\* No thread is inside tag_sentence.
TaggerIdle ==
    /\ pos_tags_result = [t \in Threads |-> [raises |-> FALSE, tags |-> <<>>]]
    /\ formatted_tags = [t \in Threads |-> <<>>]

\* Locals of a thread that runs nothing.
IdleLocals ==
    /\ caller = [t \in Threads |-> "none"]
    /\ pos_tagged_words = [t \in Threads |-> <<>>]
    /\ categories = [t \in Threads |-> EmptyCategories]
    /\ idx = [t \in Threads |-> 0]
    /\ reordered_structure = [t \in Threads |-> <<>>]
    /\ final_sequence = [t \in Threads |-> <<>>]
    /\ word_details = [t \in Threads |-> <<>>]
    /\ analysis = [t \in Threads |-> NoValue]
    /\ result = [t \in Threads |-> NoValue]
    /\ response = [t \in Threads |-> NoValue]
    /\ sign_sequence = [t \in Threads |-> <<>>]
    /\ seen = [t \in Threads |-> 0]
    /\ old_count = [t \in Threads |-> 0]
    /\ new_dictionary = [t \in Threads |-> NoValue]
    /\ new_count = [t \in Threads |-> 0]

\* ----------------------------------------- core: convert_to_sign_language
\* A caller holding the converter invokes convert_to_sign_language(words).
DirectCall(t, words) ==
    /\ pc[t] = "idle"
    /\ pc' = [pc EXCEPT ![t] = "call"]
    /\ caller' = [caller EXCEPT ![t] = "direct"]
    /\ pos_tagged_words' = [pos_tagged_words EXCEPT ![t] = words]
    /\ UNCHANGED <<sharedVars, legacyVars, coreLocals, result, response>>

\* POST /api/convert-sign-language up to the call of the converter: blank
\* text is rejected, both components are checked, the tagger returns words.
ApiConvertRequest(t, blank, words) ==
    /\ pc[t] = "idle"
    /\ caller' = [caller EXCEPT ![t] = "api"]
    /\ IF blank
       THEN /\ response' = [response EXCEPT ![t] = HttpError(400, "Please provide text input!")]
            /\ pc' = [pc EXCEPT ![t] = "done"]
            /\ UNCHANGED pos_tagged_words
       ELSE IF ~tagger_initialized
       THEN /\ response' = [response EXCEPT ![t] = HttpError(500, "Error loading POS Tagger!")]
            /\ pc' = [pc EXCEPT ![t] = "done"]
            /\ UNCHANGED pos_tagged_words
       ELSE IF ~is_initialized
       THEN /\ response' = [response EXCEPT ![t] =
                               HttpError(500, "Error loading Sign Language Converter!")]
            /\ pc' = [pc EXCEPT ![t] = "done"]
            /\ UNCHANGED pos_tagged_words
       ELSE /\ pos_tagged_words' = [pos_tagged_words EXCEPT ![t] = words]
            /\ pc' = [pc EXCEPT ![t] = "call"]
            /\ UNCHANGED response
    /\ UNCHANGED <<sharedVars, legacyVars, coreLocals, result>>

\* convert_to_sign_language entered without its initialization guard.
ConvertEnter_unguarded(t) ==
    /\ pc[t] = "call"
    /\ categories' = [categories EXCEPT ![t] = EmptyCategories]
    /\ idx' = [idx EXCEPT ![t] = 1]
    /\ pc' = [pc EXCEPT ![t] = "categorize"]
    /\ UNCHANGED result
    /\ UNCHANGED <<sharedVars, legacyVars, caller, pos_tagged_words, reordered_structure,
                   final_sequence, word_details, analysis, response>>

\* Variant of the entry that answers an empty token list with an error.
ConvertEnter_rejecting_empty(t) ==
    /\ pc[t] = "call"
    /\ IF ~is_initialized \/ pos_tagged_words[t] = <<>>
       THEN /\ result' = [result EXCEPT ![t] = ErrorResult]
            /\ pc' = [pc EXCEPT ![t] = "returned"]
            /\ UNCHANGED <<categories, idx>>
       ELSE /\ categories' = [categories EXCEPT ![t] = EmptyCategories]
            /\ idx' = [idx EXCEPT ![t] = 1]
            /\ pc' = [pc EXCEPT ![t] = "categorize"]
            /\ UNCHANGED result
    /\ UNCHANGED <<sharedVars, legacyVars, caller, pos_tagged_words, reordered_structure,
                   final_sequence, word_details, analysis, response>>

\* Entry of convert_to_sign_language: the initialization guard, then the
\* start of _categorize_words.
ConvertEnter(t) ==
    /\ pc[t] = "call"
    /\ IF ~is_initialized
       THEN /\ result' = [result EXCEPT ![t] = ErrorResult]
            /\ pc' = [pc EXCEPT ![t] = "returned"]
            /\ UNCHANGED <<categories, idx>>
       ELSE /\ categories' = [categories EXCEPT ![t] = EmptyCategories]
            /\ idx' = [idx EXCEPT ![t] = 1]
            /\ pc' = [pc EXCEPT ![t] = "categorize"]
            /\ UNCHANGED result
    /\ UNCHANGED <<sharedVars, legacyVars, caller, pos_tagged_words, reordered_structure,
                   final_sequence, word_details, analysis, response>>

\* Variant of the loop of _categorize_words whose position is kept on the
\* shared converter instance instead of in a local.
CategorizeStep_sharing_index(t) ==
    /\ pc[t] = "categorize"
    /\ idx[t] <= Len(pos_tagged_words[t])
    /\ categories' = [categories EXCEPT ![t] =
                         categorize_step(@, pos_tagged_words[t], idx[t])]
    /\ idx' = [u \in Threads |-> idx[t] + 1]
    /\ UNCHANGED <<sharedVars, legacyVars, pc, caller, pos_tagged_words, reordered_structure,
                   final_sequence, word_details, analysis, result, response>>

\* One iteration of the loop of _categorize_words.
CategorizeStep(t) ==
    /\ pc[t] = "categorize"
    /\ idx[t] <= Len(pos_tagged_words[t])
    /\ categories' = [categories EXCEPT ![t] =
                         categorize_step(@, pos_tagged_words[t], idx[t])]
    /\ idx' = [idx EXCEPT ![t] = @ + 1]
    /\ UNCHANGED <<sharedVars, legacyVars, pc, caller, pos_tagged_words, reordered_structure,
                   final_sequence, word_details, analysis, result, response>>

\* End of the loop: _categorize_words returns the buckets.
CategorizeReturn(t) ==
    /\ pc[t] = "categorize"
    /\ idx[t] > Len(pos_tagged_words[t])
    /\ pc' = [pc EXCEPT ![t] = "reorder"]
    /\ UNCHANGED <<sharedVars, legacyVars, caller, pos_tagged_words, coreLocals, result, response>>

\* Steps 2 and 3: the reordered tokens and the final sequence of words.
Reorder(t) ==
    /\ pc[t] = "reorder"
    /\ reordered_structure' = [reordered_structure EXCEPT ![t] =
                                  reorder_for_sign_language(categories[t])]
    /\ final_sequence' = [final_sequence EXCEPT ![t] =
          final_sequence_of(pos_tagged_words[t], reorder_for_sign_language(categories[t]))]
    /\ pc' = [pc EXCEPT ![t] = "details"]
    /\ UNCHANGED <<sharedVars, legacyVars, caller, pos_tagged_words, categories, idx,
                   word_details, analysis, result, response>>

\* Variant of _create_word_details that subscripts the dictionary without
\* the membership test: a word that is not a key raises KeyError.
CreateWordDetails_subscripting(t) ==
    /\ pc[t] = "details"
    /\ IF \A i \in 1..Len(pos_tagged_words[t]) :
             normalize(pos_tagged_words[t][i][1]) \in DOMAIN basic_signs
       THEN /\ word_details' = [word_details EXCEPT ![t] =
                                  create_word_details(basic_signs, pos_tagged_words[t])]
            /\ pc' = [pc EXCEPT ![t] = "analysis"]
            /\ UNCHANGED result
       ELSE /\ result' = [result EXCEPT ![t] = [error |-> "KeyError"]]
            /\ pc' = [pc EXCEPT ![t] = "returned"]
            /\ UNCHANGED word_details
    /\ UNCHANGED <<sharedVars, legacyVars, caller, pos_tagged_words, categories, idx,
                   reordered_structure, final_sequence, analysis, response>>

\* _create_word_details.
CreateWordDetails(t) ==
    /\ pc[t] = "details"
    /\ UNCHANGED result
    /\ word_details' = [word_details EXCEPT ![t] =
                           create_word_details(basic_signs, pos_tagged_words[t])]
    /\ pc' = [pc EXCEPT ![t] = "analysis"]
    /\ UNCHANGED <<sharedVars, legacyVars, caller, pos_tagged_words, categories, idx,
                   reordered_structure, final_sequence, analysis, response>>

\* Variant of the report step that empties the buckets it has counted.
CreateAnalysis_consuming(t) ==
    /\ pc[t] = "analysis"
    /\ analysis' = [analysis EXCEPT ![t] =
                       create_analysis(pos_tagged_words[t], categories[t], final_sequence[t])]
    /\ categories' = [categories EXCEPT ![t] = EmptyCategories]
    /\ pc' = [pc EXCEPT ![t] = "return"]
    /\ UNCHANGED <<sharedVars, legacyVars, caller, pos_tagged_words, idx,
                   reordered_structure, final_sequence, word_details, result, response>>

CreateAnalysis(t) ==
    /\ pc[t] = "analysis"
    /\ analysis' = [analysis EXCEPT ![t] =
                       create_analysis(pos_tagged_words[t], categories[t], final_sequence[t])]
    /\ pc' = [pc EXCEPT ![t] = "return"]
    /\ UNCHANGED <<sharedVars, legacyVars, caller, pos_tagged_words, categories, idx,
                   reordered_structure, final_sequence, word_details, result, response>>

\* The return statement of convert_to_sign_language.
Return(t) ==
    /\ pc[t] = "return"
    /\ result' = [result EXCEPT ![t] =
          [ original_sentence |->
                JoinWords([i \in 1..Len(pos_tagged_words[t]) |-> pos_tagged_words[t][i][1]]),
            sign_language_sequence |-> final_sequence[t],
            structure_analysis |-> analysis[t],
            pos_analysis |-> pos_analysis_of(pos_tagged_words[t], categories[t]),
            word_details |-> word_details[t],
            reorder_strategy |-> "Vietnamese SVO -> Sign Language SOV" ]]
    /\ pc' = [pc EXCEPT ![t] = "returned"]
    /\ UNCHANGED <<sharedVars, legacyVars, caller, pos_tagged_words, coreLocals, response>>

\* Back in the caller.  The endpoint reads the result's keys (a result
\* without them raises, which the handler turns into HTTP 500) and builds
\* the response; the measured processing time is left out.
AfterReturn(t) ==
    /\ pc[t] = "returned"
    /\ pc' = [pc EXCEPT ![t] = "done"]
    /\ IF caller[t] = "api"
       THEN response' = [response EXCEPT ![t] =
              IF "structure_analysis" \notin DOMAIN result[t]
              THEN HttpError(500, "Conversion error")
              ELSE [ status |-> 200,
                     success |-> TRUE,
                     original_sentence |-> result[t].original_sentence,
                     pos_analysis |-> pos_tagged_words[t],
                     sign_language_sequence |-> result[t].sign_language_sequence,
                     structure_analysis |-> result[t].structure_analysis,
                     pos_structure |-> result[t].pos_analysis,
                     word_details |-> result[t].word_details ]]
       ELSE UNCHANGED response
    /\ UNCHANGED <<sharedVars, legacyVars, caller, pos_tagged_words, coreLocals, result>>

\* The call is over; its locals are discarded.
Finish(t) ==
    /\ pc[t] = "done"
    /\ pc' = [pc EXCEPT ![t] = "idle"]
    /\ caller' = [caller EXCEPT ![t] = "none"]
    /\ pos_tagged_words' = [pos_tagged_words EXCEPT ![t] = <<>>]
    /\ categories' = [categories EXCEPT ![t] = EmptyCategories]
    /\ idx' = [idx EXCEPT ![t] = 0]
    /\ reordered_structure' = [reordered_structure EXCEPT ![t] = <<>>]
    /\ final_sequence' = [final_sequence EXCEPT ![t] = <<>>]
    /\ word_details' = [word_details EXCEPT ![t] = <<>>]
    /\ analysis' = [analysis EXCEPT ![t] = NoValue]
    /\ result' = [result EXCEPT ![t] = NoValue]
    /\ response' = [response EXCEPT ![t] = NoValue]
    /\ sign_sequence' = [sign_sequence EXCEPT ![t] = <<>>]
    /\ seen' = [seen EXCEPT ![t] = 0]
    /\ old_count' = [old_count EXCEPT ![t] = 0]
    /\ new_dictionary' = [new_dictionary EXCEPT ![t] = NoValue]
    /\ new_count' = [new_count EXCEPT ![t] = 0]
    /\ UNCHANGED <<sharedVars, legacyShared>>

\* ------------------------------------------ specification: one conversion
\* The converter has been constructed from one of the sources; thread 1
\* serves calls of convert_to_sign_language one after the other.
Pipeline(t) ==
    \/ ConvertEnter(t)
    \/ CategorizeStep(t)
    \/ CategorizeReturn(t)
    \/ Reorder(t)
    \/ CreateWordDetails(t)
    \/ CreateAnalysis(t)
    \/ Return(t)
    \/ AfterReturn(t)
    \/ Finish(t)

Init ==
    /\ dict_file \in PipelineFiles
    /\ basic_signs = load_dictionary_from_file(dict_file)
    /\ is_initialized = TRUE
    /\ tagger_initialized = TRUE
    /\ pc = [t \in Threads |-> IF t = 1 THEN "idle" ELSE "off"]
    /\ LegacyAbsent
    /\ ConstructionNotTraced
    /\ TaggerIdle
    /\ IdleLocals

Next ==
    \E t \in Threads :
        \/ pc[t] = "idle" /\ \E words \in Inputs : DirectCall(t, words)
        \/ Pipeline(t)

Spec == Init /\ [][Next]_vars


\* ------------------------------- specification: the initialization guards
\* The flags the guards of convert_to_sign_language and of
\* check_component_initialization read are taken in both values; requests
\* arrive through the endpoint or call the converter directly.
InitApi ==
    /\ dict_file \in PipelineFiles
    /\ basic_signs = load_dictionary_from_file(dict_file)
    /\ is_initialized \in BOOLEAN
    /\ tagger_initialized \in BOOLEAN
    /\ pc = [t \in Threads |-> IF t = 1 THEN "idle" ELSE "off"]
    /\ LegacyAbsent
    /\ ConstructionNotTraced
    /\ TaggerIdle
    /\ IdleLocals

NextApi ==
    \E t \in Threads :
        \/ pc[t] = "idle" /\ \E words \in ApiInputs : DirectCall(t, words)
        \/ pc[t] = "idle" /\ \E blank \in BOOLEAN, words \in ApiInputs :
                                 ApiConvertRequest(t, blank, words)
        \/ Pipeline(t)

SpecApi == InitApi /\ [][NextApi]_vars



\* ------------------------------------------ legacy converter: operations
\* str.isupper: some cased character, and no lowercase one.
IsUpper(s) ==
    /\ \E i \in 1..Len(s) : LowerChar(s[i]) # s[i]
    /\ \A i \in 1..Len(s) : UpperChar(s[i]) = s[i]

DictValues(d) == { d[k] : k \in DOMAIN d }

KeyError == [error |-> "KeyError"]

legacy_create_analysis(original_words, categorized, signs, dictionary) ==
    [ word_count |-> Len(original_words),
      sign_count |-> Len(signs),
      structure_changes |->
          [ subjects |-> Len(categorized["subjects"]),
            verbs |-> Len(categorized["verbs"]),
            objects |-> Len(categorized["objects"]),
            adjectives |-> Len(categorized["adjectives"]),
            others |-> Len(categorized["others"]) ],
      reorder_applied |-> TRUE,
      vocabulary_mapped |->
          Cardinality({ i \in 1..Len(signs) :
                          ~IsUpper(signs[i]) \/ signs[i] \in DictValues(dictionary) }) ]

\* The legacy buckets as the (word, tag) tuples they refer to.
legacy_pos_analysis_of(words, cats) ==
    [b \in LegacyBucketNames |-> [k \in 1..Len(cats[b]) |-> words[cats[b][k]]]]

\* The word the running _convert_vocabulary loop is at.
CurrentWord(t) == pos_tagged_words[t][reordered_structure[t][idx[t]]][1]

\* A caller invokes the legacy convert_to_sign_language.
LegacyCall(t, words) ==
    /\ pc[t] = "idle"
    /\ pc' = [pc EXCEPT ![t] = "l_call"]
    /\ caller' = [caller EXCEPT ![t] = "legacy"]
    /\ pos_tagged_words' = [pos_tagged_words EXCEPT ![t] = words]
    /\ UNCHANGED <<sharedVars, legacyVars, coreLocals, result, response>>

\* Guard, _categorize_words and _reorder_for_sign_language of the legacy
\* convert_to_sign_language: they read nothing another thread writes.
LegacyConvertEnter(t) ==
    /\ pc[t] = "l_call"
    /\ IF ~legacy_initialized
       THEN /\ result' = [result EXCEPT ![t] = ErrorResult]
            /\ pc' = [pc EXCEPT ![t] = "returned"]
            /\ UNCHANGED <<categories, reordered_structure, idx, sign_sequence>>
       ELSE LET cats == legacy_categorize_words(pos_tagged_words[t]) IN
            /\ categories' = [categories EXCEPT ![t] = cats]
            /\ reordered_structure' =
                 [reordered_structure EXCEPT ![t] = legacy_reorder_for_sign_language(cats)]
            /\ idx' = [idx EXCEPT ![t] = 1]
            /\ sign_sequence' = [sign_sequence EXCEPT ![t] = <<>>]
            /\ pc' = [pc EXCEPT ![t] = "l_test"]
            /\ UNCHANGED result
    /\ UNCHANGED <<sharedVars, legacyShared, seen, old_count, new_dictionary,
                   new_count, caller, pos_tagged_words, final_sequence,
                   word_details, analysis, response>>

\* Variant of the membership test whose fallback uppercases the normalized
\* word instead of the surface word.
VocabTest_joining_fallback(t) ==
    /\ pc[t] = "l_test"
    /\ idx[t] <= Len(reordered_structure[t])
    /\ seen' = [seen EXCEPT ![t] = dict_id]
    /\ IF normalize(CurrentWord(t)) \in DOMAIN sign_dictionary
       THEN /\ pc' = [pc EXCEPT ![t] = "l_read"]
            /\ UNCHANGED <<idx, sign_sequence>>
       ELSE /\ sign_sequence' =
                 [sign_sequence EXCEPT ![t] = Append(@, Upper(normalize(CurrentWord(t))))]
            /\ idx' = [idx EXCEPT ![t] = @ + 1]
            /\ UNCHANGED pc
    /\ UNCHANGED <<sharedVars, legacyShared, old_count, new_dictionary, new_count,
                   caller, pos_tagged_words, categories, reordered_structure,
                   final_sequence, word_details, analysis, result, response>>

\* _convert_vocabulary, the membership test of one token:
\* normalized_word in self.sign_dictionary.
VocabTest(t) ==
    /\ pc[t] = "l_test"
    /\ idx[t] <= Len(reordered_structure[t])
    /\ seen' = [seen EXCEPT ![t] = dict_id]
    /\ IF normalize(CurrentWord(t)) \in DOMAIN sign_dictionary
       THEN /\ pc' = [pc EXCEPT ![t] = "l_read"]
            /\ UNCHANGED <<idx, sign_sequence>>
       ELSE /\ sign_sequence' =
                 [sign_sequence EXCEPT ![t] = Append(@, Upper(CurrentWord(t)))]
            /\ idx' = [idx EXCEPT ![t] = @ + 1]
            /\ UNCHANGED pc
    /\ UNCHANGED <<sharedVars, legacyShared, old_count, new_dictionary, new_count,
                   caller, pos_tagged_words, categories, reordered_structure,
                   final_sequence, word_details, analysis, result, response>>

\* Variant of the value read that emits the uppercased word on a hit too.
VocabRead_ignoring_value(t) ==
    /\ pc[t] = "l_read"
    /\ sign_sequence' = [sign_sequence EXCEPT ![t] = Append(@, Upper(CurrentWord(t)))]
    /\ idx' = [idx EXCEPT ![t] = @ + 1]
    /\ pc' = [pc EXCEPT ![t] = "l_test"]
    /\ UNCHANGED result
    /\ UNCHANGED <<sharedVars, legacyShared, seen, old_count, new_dictionary,
                   new_count, caller, pos_tagged_words, categories,
                   reordered_structure, final_sequence, word_details, analysis,
                   response>>

\* _convert_vocabulary, the value read of the same token:
\* self.sign_dictionary[normalized_word], on whatever mapping the
\* attribute refers to now; a missing key raises KeyError out of the call.
VocabRead(t) ==
    /\ pc[t] = "l_read"
    /\ IF normalize(CurrentWord(t)) \in DOMAIN sign_dictionary
       THEN /\ sign_sequence' =
                 [sign_sequence EXCEPT ![t] =
                     Append(@, sign_dictionary[normalize(CurrentWord(t))])]
            /\ idx' = [idx EXCEPT ![t] = @ + 1]
            /\ pc' = [pc EXCEPT ![t] = "l_test"]
            /\ UNCHANGED result
       ELSE /\ result' = [result EXCEPT ![t] = KeyError]
            /\ pc' = [pc EXCEPT ![t] = "returned"]
            /\ UNCHANGED <<idx, sign_sequence>>
    /\ UNCHANGED <<sharedVars, legacyShared, seen, old_count, new_dictionary,
                   new_count, caller, pos_tagged_words, categories,
                   reordered_structure, final_sequence, word_details, analysis,
                   response>>

\* The loop is over: _create_analysis and the returned record.
LegacyReturn(t) ==
    /\ pc[t] = "l_test"
    /\ idx[t] > Len(reordered_structure[t])
    /\ LET a == legacy_create_analysis(pos_tagged_words[t], categories[t],
                                       sign_sequence[t], sign_dictionary)
       IN  /\ analysis' = [analysis EXCEPT ![t] = a]
           /\ result' = [result EXCEPT ![t] =
                  [ original_sentence |->
                        JoinWords([i \in 1..Len(pos_tagged_words[t]) |->
                                      pos_tagged_words[t][i][1]]),
                    sign_language_sequence |-> sign_sequence[t],
                    structure_analysis |-> a,
                    pos_analysis |->
                        legacy_pos_analysis_of(pos_tagged_words[t], categories[t]) ]]
    /\ pc' = [pc EXCEPT ![t] = "returned"]
    /\ UNCHANGED <<sharedVars, legacyVars, caller, pos_tagged_words, categories,
                   idx, reordered_structure, final_sequence, word_details,
                   response>>

\* reload_dictionary: old_count = len(self.sign_dictionary).
ReloadCall(t) ==
    /\ pc[t] = "idle"
    /\ reloads < MaxReloads
    /\ reloads' = reloads + 1
    /\ old_count' = [old_count EXCEPT ![t] = Cardinality(DOMAIN sign_dictionary)]
    /\ pc' = [pc EXCEPT ![t] = "r_load"]
    /\ caller' = [caller EXCEPT ![t] = "reload"]
    /\ UNCHANGED <<sharedVars, legacy_initialized, sign_dictionary, dict_id,
                   sign_sequence, seen, new_dictionary, new_count,
                   pos_tagged_words, coreLocals, result, response>>

\* reload_dictionary: the call of _load_dictionary_from_file, which fills
\* a mapping of its own.
ReloadLoad(t) ==
    /\ pc[t] = "r_load"
    /\ new_dictionary' =
         [new_dictionary EXCEPT ![t] = legacy_load_dictionary_from_file(dict_file)]
    /\ pc' = [pc EXCEPT ![t] = "r_publish"]
    /\ UNCHANGED <<sharedVars, legacyShared, sign_sequence, seen, old_count,
                   new_count, caller, pos_tagged_words, coreLocals, result,
                   response>>

\* reload_dictionary: the assignment to self.sign_dictionary.
ReloadPublish(t) ==
    /\ pc[t] = "r_publish"
    /\ sign_dictionary' = new_dictionary[t]
    /\ dict_id' = dict_id + 1
    /\ pc' = [pc EXCEPT ![t] = "r_count"]
    /\ UNCHANGED <<sharedVars, legacy_initialized, reloads, legacyLocals, caller,
                   pos_tagged_words, coreLocals, result, response>>

\* reload_dictionary: new_count = len(self.sign_dictionary), and the return.
ReloadCount(t) ==
    /\ pc[t] = "r_count"
    /\ new_count' = [new_count EXCEPT ![t] = Cardinality(DOMAIN sign_dictionary)]
    /\ pc' = [pc EXCEPT ![t] = "done"]
    /\ UNCHANGED <<sharedVars, legacyShared, sign_sequence, seen, old_count,
                   new_dictionary, caller, pos_tagged_words, coreLocals, result,
                   response>>

\* The dictionary file is edited, replaced or removed on disk.
EditFile(files) ==
    /\ \E f \in files \ {dict_file} : dict_file' = f
    /\ UNCHANGED <<is_initialized, basic_signs, tagger_initialized, singletonVars,
                   taggerLocals, legacyVars, pc, caller, pos_tagged_words, coreLocals, result,
                   response>>

\* The legacy converter is constructed: __init__ loads the dictionary.
LegacyConstruct ==
    /\ ~legacy_initialized
    /\ legacy_initialized' = TRUE
    /\ sign_dictionary' = legacy_load_dictionary_from_file(dict_file)
    /\ dict_id' = dict_id + 1
    /\ UNCHANGED <<sharedVars, reloads, legacyLocals, pc, caller,
                   pos_tagged_words, coreLocals, result, response>>

\* The core converter is constructed: __init__ and _init_conversion_rules.
CoreConstruct ==
    /\ ~is_initialized
    /\ is_initialized' = TRUE
    /\ basic_signs' = load_dictionary_from_file(dict_file)
    /\ UNCHANGED <<dict_file, tagger_initialized, singletonVars, taggerLocals,
                   legacyVars, pc,
                   caller, pos_tagged_words, coreLocals, result, response>>

LegacyPipeline(t) ==
    \/ LegacyConvertEnter(t)
    \/ VocabTest(t)
    \/ VocabRead(t)
    \/ LegacyReturn(t)
    \/ AfterReturn(t)
    \/ Finish(t)

Reload(t) ==
    \/ ReloadCall(t)
    \/ ReloadLoad(t)
    \/ ReloadPublish(t)
    \/ ReloadCount(t)


\* ---------------- specification: conversions concurrent with reloads
\* The legacy converter serves conversions while reload_dictionary runs
\* on another thread and the dictionary file changes on disk.
InitReload ==
    /\ dict_file \in ReloadFiles
    /\ is_initialized = FALSE
    /\ basic_signs = NoValue
    /\ tagger_initialized = TRUE
    /\ legacy_initialized = TRUE
    /\ sign_dictionary = legacy_load_dictionary_from_file(dict_file)
    /\ dict_id = 1
    /\ reloads = 0
    /\ pc = [t \in Threads |-> "idle"]
    /\ ConstructionNotTraced
    /\ TaggerIdle
    /\ IdleLocals

NextReload ==
    \/ \E t \in Threads :
          \/ pc[t] = "idle" /\ \E words \in ReloadInputs : LegacyCall(t, words)
          \/ LegacyPipeline(t)
          \/ Reload(t)
    \/ EditFile(ReloadFiles)

SpecReload == InitReload /\ [][NextReload]_vars


\* ------------------------------- specification: loading the dictionary
\* Either converter is constructed over a dictionary file of any shape,
\* and the legacy one reloads it.
InitLoad ==
    /\ dict_file \in LoadFiles
    /\ is_initialized = FALSE
    /\ basic_signs = NoValue
    /\ tagger_initialized = TRUE
    /\ LegacyAbsent
    /\ pc = [t \in Threads |-> IF t = 1 THEN "idle" ELSE "off"]
    /\ ConstructionNotTraced
    /\ TaggerIdle
    /\ IdleLocals

NextLoad ==
    \/ CoreConstruct
    \/ LegacyConstruct
    \/ \E t \in Threads : legacy_initialized /\ Reload(t)
    \/ \E t \in Threads : pc[t] = "done" /\ Finish(t)

SpecLoad == InitLoad /\ [][NextLoad]_vars



\* --------------------- specification: both converters, one call at a time
\* The core converter and the legacy converter are constructed over the
\* same dictionary file; one caller converts with either, and nothing
\* reloads.
InitSequential ==
    /\ dict_file \in PipelineFiles
    /\ is_initialized = TRUE
    /\ basic_signs = load_dictionary_from_file(dict_file)
    /\ tagger_initialized = TRUE
    /\ legacy_initialized = TRUE
    /\ sign_dictionary = legacy_load_dictionary_from_file(dict_file)
    /\ dict_id = 1
    /\ reloads = 0
    /\ pc = [t \in Threads |-> IF t = 1 THEN "idle" ELSE "off"]
    /\ ConstructionNotTraced
    /\ TaggerIdle
    /\ IdleLocals

NextSequential ==
    \E t \in Threads :
        \/ pc[t] = "idle" /\ \E words \in SeqInputs : DirectCall(t, words)
        \/ pc[t] = "idle" /\ \E words \in SeqInputs : LegacyCall(t, words)
        \/ Pipeline(t)
        \/ LegacyPipeline(t)

SpecSequential == InitSequential /\ [][NextSequential]_vars



\* --------------------------- specification: interleaved conversion requests
\* Two callers convert on the one core converter instance at the same
\* time; the dictionary is not replaced.
InitConcurrent ==
    /\ dict_file \in PipelineFiles
    /\ basic_signs = load_dictionary_from_file(dict_file)
    /\ is_initialized = TRUE
    /\ tagger_initialized = TRUE
    /\ pc = [t \in Threads |-> "idle"]
    /\ LegacyAbsent
    /\ ConstructionNotTraced
    /\ TaggerIdle
    /\ IdleLocals

NextConcurrent ==
    \E t \in Threads :
        \/ pc[t] = "idle" /\ \E words \in ConcInputs : DirectCall(t, words)
        \/ Pipeline(t)

SpecConcurrent == InitConcurrent /\ [][NextConcurrent]_vars



\* ------------------------------ specification: two requests side by side
\* Two callers convert on the core converter, constructed without a
\* dictionary file, so that the buckets of two requests exist together.
InitPairs ==
    /\ dict_file = FileMissing
    /\ basic_signs = load_dictionary_from_file(dict_file)
    /\ is_initialized = TRUE
    /\ tagger_initialized = TRUE
    /\ pc = [t \in Threads |-> "idle"]
    /\ LegacyAbsent
    /\ ConstructionNotTraced
    /\ TaggerIdle
    /\ IdleLocals

NextPairs ==
    \E t \in Threads :
        \/ pc[t] = "idle" /\ \E words \in PairInputs : DirectCall(t, words)
        \/ Pipeline(t)

SpecPairs == InitPairs /\ [][NextPairs]_vars


\* ------------------------------------ core: construction of the singleton
\* A converter object as object.__new__ leaves it: no attribute is set
\* (is_initialized: the attribute exists, and then it is True; rules_set:
\* the attributes basic_signs and reorder_strategy exist).
NewObject == [is_initialized |-> FALSE, rules_set |-> FALSE, basic_signs |-> NoValue]

singletonFrame ==
    <<dict_file, is_initialized, basic_signs, tagger_initialized, taggerLocals,
      legacyVars, pos_tagged_words, coreLocals, result, response>>

\* VietnameseSignLanguageConverter() is called, directly or by
\* get_instance(), whose body is `return cls()`.
ConstructCall(t, kind) ==
    /\ pc[t] = "idle"
    /\ calls < MaxCalls
    /\ calls' = calls + 1
    /\ caller' = [caller EXCEPT ![t] = kind]
    /\ pc' = [pc EXCEPT ![t] = "new_test"]
    /\ UNCHANGED <<singletonFrame, cls_instance, cls_initialized, instances,
                   self_obj, returned, init_runs>>

\* __new__: the test `cls._instance is None`.
NewTest(t) ==
    /\ pc[t] = "new_test"
    /\ pc' = [pc EXCEPT ![t] = IF cls_instance = 0 THEN "new_create"
                                                  ELSE "new_return"]
    /\ UNCHANGED <<singletonFrame, caller, singletonVars>>

\* __new__: a fresh object is allocated and stored in cls._instance.
NewCreate(t) ==
    /\ pc[t] = "new_create"
    /\ instances' = Append(instances, NewObject)
    /\ cls_instance' = Len(instances) + 1
    /\ pc' = [pc EXCEPT ![t] = "new_return"]
    /\ UNCHANGED <<singletonFrame, caller, cls_initialized, self_obj, returned,
                   init_runs, calls>>

\* __new__ returns cls._instance, and __init__ is entered on that object.
NewReturn(t) ==
    /\ pc[t] = "new_return"
    /\ self_obj' = [self_obj EXCEPT ![t] = cls_instance]
    /\ pc' = [pc EXCEPT ![t] = "init_test"]
    /\ UNCHANGED <<singletonFrame, caller, cls_instance, cls_initialized,
                   instances, returned, init_runs, calls>>

\* __init__: the test of the class attribute _initialized.
InitTest(t) ==
    /\ pc[t] = "init_test"
    /\ pc' = [pc EXCEPT ![t] = IF cls_initialized THEN "init_return"
                                                  ELSE "init_flag"]
    /\ UNCHANGED <<singletonFrame, caller, singletonVars>>

\* __init__: the body starts, self.is_initialized = True.
InitFlag(t) ==
    /\ pc[t] = "init_flag"
    /\ instances' = [instances EXCEPT ![self_obj[t]].is_initialized = TRUE]
    /\ init_runs' = init_runs + 1
    /\ pc' = [pc EXCEPT ![t] = "init_class"]
    /\ UNCHANGED <<singletonFrame, caller, cls_instance, cls_initialized,
                   self_obj, returned, calls>>

\* __init__: the class attribute _initialized is set.
InitClass(t) ==
    /\ pc[t] = "init_class"
    /\ cls_initialized' = TRUE
    /\ pc' = [pc EXCEPT ![t] = "init_rules"]
    /\ UNCHANGED <<singletonFrame, caller, cls_instance, instances, self_obj,
                   returned, init_runs, calls>>

\* _init_conversion_rules: the dictionary is loaded into self.basic_signs.
InitRules(t) ==
    /\ pc[t] = "init_rules"
    /\ instances' = [instances EXCEPT
                        ![self_obj[t]].basic_signs =
                            load_dictionary_from_file(dict_file),
                        ![self_obj[t]].rules_set = TRUE]
    /\ pc' = [pc EXCEPT ![t] = "init_return"]
    /\ UNCHANGED <<singletonFrame, caller, cls_instance, cls_initialized,
                   self_obj, returned, init_runs, calls>>

\* The call hands the object to its caller.
ConstructReturn(t) ==
    /\ pc[t] = "init_return"
    /\ returned' = returned \cup {self_obj[t]}
    /\ self_obj' = [self_obj EXCEPT ![t] = 0]
    /\ caller' = [caller EXCEPT ![t] = "none"]
    /\ pc' = [pc EXCEPT ![t] = "idle"]
    /\ UNCHANGED <<singletonFrame, cls_instance, cls_initialized, instances,
                   init_runs, calls>>

\* What a conversion ends with when it reads an attribute that is not set.
AttributeError == [raised |-> "AttributeError"]

\* A caller that holds a converter it was given calls
\* convert_to_sign_language on a sentence of at least one word.
ConvertOnInstance(t, i) ==
    /\ pc[t] = "idle"
    /\ calls < MaxCalls
    /\ i \in returned
    /\ calls' = calls + 1
    /\ self_obj' = [self_obj EXCEPT ![t] = i]
    /\ caller' = [caller EXCEPT ![t] = "convert"]
    /\ pc' = [pc EXCEPT ![t] = "conv_check"]
    /\ UNCHANGED <<singletonFrame, cls_instance, cls_initialized, instances,
                   returned, init_runs>>

\* convert_to_sign_language: the test of self.is_initialized, an attribute
\* that only __init__ sets and that it only sets to True: on an object
\* whose __init__ did not run its body the read raises.
ConvertCheck(t) ==
    /\ pc[t] = "conv_check"
    /\ IF instances[self_obj[t]].is_initialized
       THEN /\ pc' = [pc EXCEPT ![t] = "conv_details"]
            /\ UNCHANGED result
       ELSE /\ pc' = [pc EXCEPT ![t] = "conv_done"]
            /\ result' = [result EXCEPT ![t] = AttributeError]
    /\ UNCHANGED <<dict_file, is_initialized, basic_signs, tagger_initialized,
                   taggerLocals, legacyVars, pos_tagged_words, coreLocals,
                   response, caller, singletonVars>>

\* _create_word_details: the first read of self.basic_signs, which raises
\* when the attribute is not set.
ConvertReadDictionary(t) ==
    /\ pc[t] = "conv_details"
    /\ result' = [result EXCEPT ![t] =
                     IF instances[self_obj[t]].rules_set
                     THEN [converted |-> TRUE]
                     ELSE AttributeError]
    /\ pc' = [pc EXCEPT ![t] = "conv_done"]
    /\ UNCHANGED <<dict_file, is_initialized, basic_signs, tagger_initialized,
                   taggerLocals, legacyVars, pos_tagged_words, coreLocals,
                   response, caller, singletonVars>>

\* The conversion is over.
ConvertOver(t) ==
    /\ pc[t] = "conv_done"
    /\ pc' = [pc EXCEPT ![t] = "idle"]
    /\ caller' = [caller EXCEPT ![t] = "none"]
    /\ self_obj' = [self_obj EXCEPT ![t] = 0]
    /\ result' = [result EXCEPT ![t] = NoValue]
    /\ UNCHANGED <<dict_file, is_initialized, basic_signs, tagger_initialized,
                   taggerLocals, legacyVars, pos_tagged_words, coreLocals,
                   response, cls_instance, cls_initialized, instances, returned,
                   init_runs, calls>>

\* --------------------------- specification: construction of the singleton
\* Two threads of one process call the constructor and get_instance() on
\* a class nothing has constructed yet.
InitSingleton ==
    /\ dict_file \in PipelineFiles
    /\ is_initialized = FALSE
    /\ basic_signs = NoValue
    /\ tagger_initialized = TRUE
    /\ pc = [t \in Threads |-> "idle"]
    /\ LegacyAbsent
    /\ ConstructionNotTraced
    /\ TaggerIdle
    /\ IdleLocals

NextSingleton ==
    \E t \in Threads :
        \/ ConstructCall(t, "constructor")
        \/ ConstructCall(t, "get_instance")
        \/ NewTest(t)
        \/ NewCreate(t)
        \/ NewReturn(t)
        \/ InitTest(t)
        \/ InitFlag(t)
        \/ InitClass(t)
        \/ InitRules(t)
        \/ ConstructReturn(t)
        \/ \E i \in 1..Len(instances) : ConvertOnInstance(t, i)
        \/ ConvertCheck(t)
        \/ ConvertReadDictionary(t)
        \/ ConvertOver(t)

SpecSingleton == InitSingleton /\ [][NextSingleton]_vars


\* ------------------------------------------------------------ the tagger
\* The table of _convert_to_ud_tag, from the tags of the tagging library
\* to the tags of the closed set.
tag_mapping ==
    DictOfPairs({
      <<"N", "NOUN">>, <<"Np", "PROPN">>, <<"Ny", "NOUN">>,
      <<"V", "VERB">>, <<"Vb", "VERB">>, <<"Vu", "AUX">>,
      <<"A", "ADJ">>, <<"Ab", "ADJ">>,
      <<"R", "ADV">>, <<"Rb", "ADV">>,
      <<"P", "PRON">>, <<"Pp", "PRON">>,
      <<"E", "ADP">>, <<"Eb", "ADP">>,
      <<"C", "CCONJ">>, <<"Cc", "CCONJ">>, <<"Cs", "SCONJ">>,
      <<"L", "DET">>, <<"Lb", "DET">>,
      <<"M", "NUM">>, <<"Mb", "NUM">>,
      <<"CH", "PUNCT">>, <<".", "PUNCT">>, <<",", "PUNCT">>,
      <<"?", "PUNCT">>, <<"!", "PUNCT">>,
      <<"T", "PART">>, <<"Tb", "PART">>,
      <<"I", "INTJ">>,
      <<"X", "X">>, <<"Fw", "X">> })

\* Variant of the tag conversion that lets a tag it does not know through.
convert_to_ud_tag_passing_unknown(underthesea_tag) ==
    IF underthesea_tag \in DOMAIN tag_mapping
    THEN tag_mapping[underthesea_tag]
    ELSE underthesea_tag

\* tag_mapping.get(underthesea_tag, "X")
convert_to_ud_tag(underthesea_tag) ==
    IF underthesea_tag \in DOMAIN tag_mapping
    THEN tag_mapping[underthesea_tag]
    ELSE "X"

\* tag_sentence: the empty list when the tagger is not initialized or
\* anything in the try block raises, the converted pairs otherwise.
tag_sentence(initialized, outcome) ==
    IF ~initialized THEN <<>>
    ELSE IF outcome.raises THEN <<>>
    ELSE [ i \in 1..Len(outcome.tags) |->
             << outcome.tags[i][1], convert_to_ud_tag(outcome.tags[i][2]) >> ]

\* Tags the tagging library answers with: the keys of the table and two
\* tags the table does not have.
SourceTags == (DOMAIN tag_mapping) \cup { "Nc", "Z" }

TaggedTokens == { << <<"T", "o^", "i">>, g >> : g \in SourceTags }

\* What pos_tag(sentence) does: it raises, or it returns tagged words.
TagOutcomes ==
    { [raises |-> TRUE, tags |-> <<>>] }
        \cup { [raises |-> FALSE, tags |-> q] : q \in SeqsUpTo(TaggedTokens, MaxTagged) }

\* tag_sentence is called; the sentence decides what pos_tag will yield.
TagCall(t, outcome) ==
    /\ pc[t] = "idle"
    /\ pc' = [pc EXCEPT ![t] = "tag_sentence"]
    /\ caller' = [caller EXCEPT ![t] = "tagger"]
    /\ pos_tags_result' = [pos_tags_result EXCEPT ![t] = outcome]
    /\ UNCHANGED <<dict_file, is_initialized, basic_signs, tagger_initialized,
                   singletonVars, formatted_tags, legacyVars, pos_tagged_words,
                   coreLocals, result, response>>

\* The body of tag_sentence, up to its return.
TagSentence(t) ==
    /\ pc[t] = "tag_sentence"
    /\ formatted_tags' =
         [formatted_tags EXCEPT ![t] = tag_sentence(tagger_initialized, pos_tags_result[t])]
    /\ pc' = [pc EXCEPT ![t] = "tagged"]
    /\ UNCHANGED <<dict_file, is_initialized, basic_signs, tagger_initialized,
                   singletonVars, pos_tags_result, legacyVars, caller,
                   pos_tagged_words, coreLocals, result, response>>

\* The caller has read the tagged words.
TagReturn(t) ==
    /\ pc[t] = "tagged"
    /\ pc' = [pc EXCEPT ![t] = "idle"]
    /\ caller' = [caller EXCEPT ![t] = "none"]
    /\ pos_tags_result' = [pos_tags_result EXCEPT ![t] = [raises |-> FALSE, tags |-> <<>>]]
    /\ formatted_tags' = [formatted_tags EXCEPT ![t] = <<>>]
    /\ UNCHANGED <<dict_file, is_initialized, basic_signs, tagger_initialized,
                   singletonVars, legacyVars, pos_tagged_words, coreLocals, result,
                   response>>

\* ------------------------------------------------ specification: tagging
\* The tagger, initialized or not, tags one sentence after the other.
InitTagger ==
    /\ dict_file = FileMissing
    /\ basic_signs = load_dictionary_from_file(dict_file)
    /\ is_initialized = TRUE
    /\ tagger_initialized \in BOOLEAN
    /\ pc = [t \in Threads |-> IF t = 1 THEN "idle" ELSE "off"]
    /\ LegacyAbsent
    /\ ConstructionNotTraced
    /\ TaggerIdle
    /\ IdleLocals

NextTagger ==
    \E t \in Threads :
        \/ pc[t] = "idle" /\ \E outcome \in TagOutcomes : TagCall(t, outcome)
        \/ TagSentence(t)
        \/ TagReturn(t)

SpecTagger == InitTagger /\ [][NextTagger]_vars


\* ================================================================ claims
\* Positions of the call at which the buckets are complete.
Categorized(t) == pc[t] \in {"reorder", "details", "analysis", "return"}

\* Positions at which convert_to_sign_language has returned a conversion.
Converted(t) == pc[t] \in {"returned", "done"} /\ IsConversion(result[t])

\* The (bucket, position) slots of a bucket set.
BucketSlots(cats) ==
    UNION { { <<b, k>> : k \in 1..Len(cats[b]) } : b \in BucketNames }

SlotsHolding(cats, i) == { s \in BucketSlots(cats) : cats[s[1]][s[2]] = i }

\* C1: when _categorize_words returns, every input token is in exactly one
\* slot of exactly one of the ten buckets and the bucket sizes sum to the
\* input length, for every input (empty, tags outside the closed set).
C1_Totality ==
    \A t \in Threads :
        Categorized(t) =>
            /\ DOMAIN categories[t] = BucketNames
            /\ Cardinality(BucketNames) = 10
            /\ \A i \in 1..Len(pos_tagged_words[t]) :
                   Cardinality(SlotsHolding(categories[t], i)) = 1
            /\ Cardinality(BucketSlots(categories[t])) = Len(pos_tagged_words[t])

C1_Witness ==
    \E t \in Threads :
        /\ Categorized(t)
        /\ Len(pos_tagged_words[t]) >= 2
        /\ \E i \in 1..Len(pos_tagged_words[t]) : pos_tagged_words[t][i][2] \notin ClosedTags
        /\ Len(categories[t]["others"]) >= 1

\* The fixed traversal order of the buckets.
BucketOrder ==
    << "time_expressions", "pronouns", "subjects", "adjectives", "numbers",
       "objects", "verbs", "adverbs", "prepositions", "others" >>

RankOf(b) == CHOOSE r \in 1..Len(BucketOrder) : BucketOrder[r] = b

\* The bucket the token at input position i was put in.
OriginBucket(t, i) == (CHOOSE s \in BucketSlots(categories[t]) : categories[t][s[1]][s[2]] = i)[1]

\* The returned sequence is the words of the reordered tokens.
ReturnedIsReordered(t) ==
    /\ Len(result[t].sign_language_sequence) = Len(reordered_structure[t])
    /\ \A k \in 1..Len(reordered_structure[t]) :
           /\ reordered_structure[t][k] \in 1..Len(pos_tagged_words[t])
           /\ result[t].sign_language_sequence[k]
                  = final_sequence[t][k]

\* C2: read left to right by bucket of origin, the returned sequence is in
\* the order time, pronoun, subject, adjective, number, object, verb,
\* adverb, preposition, other.
C2_FixedBucketOrder ==
    \A t \in Threads :
        Converted(t) =>
            /\ ReturnedIsReordered(t)
            /\ \A k1, k2 \in 1..Len(reordered_structure[t]) :
                   k1 < k2 =>
                       RankOf(OriginBucket(t, reordered_structure[t][k1]))
                           <= RankOf(OriginBucket(t, reordered_structure[t][k2]))

C2_Witness ==
    \E t \in Threads :
        /\ Converted(t)
        /\ Len(categories[t]["objects"]) >= 1
        /\ Len(categories[t]["verbs"]) >= 1
        /\ \E k \in 1..Len(reordered_structure[t]) : reordered_structure[t][k] # k

\* C3: two tokens of the same bucket keep their input order in the output.
C3_StableWithinBucket ==
    \A t \in Threads :
        Converted(t) =>
            /\ ReturnedIsReordered(t)
            /\ \A k1, k2 \in 1..Len(reordered_structure[t]) :
                   ( /\ k1 < k2
                     /\ OriginBucket(t, reordered_structure[t][k1])
                            = OriginBucket(t, reordered_structure[t][k2]) )
                   => reordered_structure[t][k1] < reordered_structure[t][k2]

C3_Witness ==
    \E t \in Threads :
        /\ Converted(t)
        /\ \E b \in BucketNames : Len(categories[t][b]) >= 2
        /\ \E k \in 1..Len(reordered_structure[t]) : reordered_structure[t][k] # k

\* C4: the output has one position per input token: same length, and the
\* output positions originate from the input positions one to one.
C4_Permutation ==
    \A t \in Threads :
        Converted(t) =>
            LET n == Len(pos_tagged_words[t])
                out == result[t].sign_language_sequence
            IN  /\ Len(out) = n
                /\ Len(reordered_structure[t]) = n
                /\ \A i \in 1..n :
                       Cardinality({k \in 1..Len(reordered_structure[t]) :
                                        reordered_structure[t][k] = i}) = 1
                /\ \A k \in 1..Len(out) :
                       out[k] = pos_tagged_words[t][reordered_structure[t][k]][1]

C4_Witness ==
    \E t \in Threads :
        /\ Converted(t)
        /\ Len(pos_tagged_words[t]) >= 2
        /\ Len(categories[t]["numbers"]) >= 1
        /\ \E k \in 1..Len(reordered_structure[t]) : reordered_structure[t][k] # k

\* The classification rules as a labelling of the input positions: the
\* subject test looks at the labels given to the earlier positions.
RECURSIVE RefLabel(_, _)
RefLabel(words, i) ==
    LET word == words[i][1]
        pos == words[i][2]
    IN  CASE pos = "PRON" -> "pronouns"
          [] pos \in {"NOUN", "PROPN"} ->
                 IF \A j \in 1..(i - 1) : RefLabel(words, j) \notin {"subjects", "verbs"}
                 THEN "subjects"
                 ELSE "objects"
          [] pos = "VERB" -> "verbs"
          [] pos = "ADJ" -> "adjectives"
          [] pos = "ADV" -> "adverbs"
          [] pos = "NUM" -> "numbers"
          [] pos = "ADP" -> "prepositions"
          [] OTHER -> IF Lower(word) \in time_words THEN "time_expressions" ELSE "others"

\* The increasing sequence of the positions of 1..n that carry label b.
RECURSIVE RefBucket(_, _, _)
RefBucket(words, b, n) ==
    IF n = 0 THEN <<>>
    ELSE IF RefLabel(words, n) = b
         THEN Append(RefBucket(words, b, n - 1), n)
         ELSE RefBucket(words, b, n - 1)

\* C5: the buckets _categorize_words returns are those of the rules taken
\* in priority order (PRON; NOUN/PROPN subject or object; VERB; ADJ; ADV;
\* NUM; ADP; else time expression or other).
C5_ClassificationRules ==
    \A t \in Threads :
        Categorized(t) =>
            \A b \in BucketNames :
                categories[t][b] = RefBucket(pos_tagged_words[t], b, Len(pos_tagged_words[t]))

C5_Witness ==
    \E t \in Threads :
        /\ Categorized(t)
        /\ Len(categories[t]["verbs"]) >= 1
        /\ Len(categories[t]["subjects"]) = 0
        /\ Len(categories[t]["objects"]) >= 1
        /\ Len(categories[t]["time_expressions"]) >= 1

\* C6: at the output position of a token whose normalized word is a key of
\* the dictionary, the returned gloss sequence holds the stored gloss.
C6_DictionaryHit ==
    \A t \in Threads :
        Converted(t) =>
            \A k \in 1..Len(result[t].sign_language_sequence) :
                LET word == pos_tagged_words[t][reordered_structure[t][k]][1]
                IN  normalize(word) \in DOMAIN basic_signs
                        => result[t].sign_language_sequence[k] = basic_signs[normalize(word)]

\* C7: at the output position of a token whose normalized word is not a key
\* of the dictionary, the returned gloss sequence holds the uppercased word.
C7_FallbackUppercase ==
    \A t \in Threads :
        Converted(t) =>
            \A k \in 1..Len(result[t].sign_language_sequence) :
                LET word == pos_tagged_words[t][reordered_structure[t][k]][1]
                IN  normalize(word) \notin DOMAIN basic_signs
                        => result[t].sign_language_sequence[k] = Upper(word)


\* C8: while reload_dictionary runs concurrently with a conversion, the
\* membership test and the value read that _convert_vocabulary makes for
\* one token use the same mapping, and the read never fails.
C8_LookupSeesOneMapping ==
    [][\A t \in Threads :
          (pc[t] = "l_read" /\ pc'[t] # "l_read")
              => (seen[t] = dict_id /\ result'[t] # KeyError)]_vars


\* A line of the dictionary source that holds a valid entry.
ValidLine(raw) ==
    LET line == Strip(raw) IN
    /\ line # <<>>
    /\ Head(line) # "#"
    /\ Contains(line, "=")
    /\ Strip(SplitFirst(line, "=")[1]) # <<>>
    /\ Strip(SplitFirst(line, "=")[2]) # <<>>

\* The source is missing, unreadable, or yields zero valid entries.
SourceYieldsNothing(file) ==
    \/ file.kind \in {"missing", "unreadable"}
    \/ \A i \in 1..Len(file.lines) : ~ValidLine(file.lines[i])

\* What the claim requires of a store filled from the dictionary file.
StoreAsRequired(store) ==
    /\ DOMAIN store # {}
    /\ SourceYieldsNothing(dict_file) => store = get_fallback_dictionary

\* C9: after any load or reload the dictionary store is not empty, and it
\* is the built-in seed mapping when the source is missing, unreadable
\* or without a valid entry.
C9_StoreNeverEmpty ==
    /\ is_initialized => StoreAsRequired(basic_signs)
    /\ legacy_initialized => StoreAsRequired(sign_dictionary)


\* C10: a conversion requested of an uninitialized converter ends in the
\* error result of convert_to_sign_language or in an HTTP error of the
\* endpoint, and no step of the conversion runs.
C10_UninitializedFails ==
    ~is_initialized =>
        \A t \in Threads :
            /\ pc[t] \notin {"categorize", "reorder", "details", "analysis", "return"}
            /\ ~IsConversion(result[t])
            /\ final_sequence[t] = <<>>
            /\ (pc[t] \in {"returned", "done"} /\ caller[t] = "direct")
                   => result[t] = ErrorResult
            /\ (pc[t] = "done" /\ caller[t] = "api")
                   => /\ response[t] # NoValue
                      /\ response[t].status \in {400, 500}
                      /\ response[t].status = 400
                            \/ response[t].detail \in
                                 { "Error loading POS Tagger!",
                                   "Error loading Sign Language Converter!" }

\* A direct call of the uninitialized converter has returned the error.
C10_Witness ==
    /\ ~is_initialized
    /\ \E t \in Threads :
          /\ pc[t] = "returned"
          /\ caller[t] = "direct"
          /\ pos_tagged_words[t] # <<>>
          /\ result[t] = ErrorResult

\* A call of convert_to_sign_language is over.
CallOver(t) == pc[t] \in {"returned", "done"} /\ caller[t] \in {"direct", "legacy"}

\* C11: on an initialized converter every call of convert_to_sign_language
\* ends with a result that holds a gloss sequence of the input's length and
\* no error, whatever the tokens, their tags and the dictionary.
C11_NoErrorState ==
    \A t \in Threads :
        CallOver(t) =>
            /\ ~IsError(result[t])
            /\ IsConversion(result[t])
            /\ Len(result[t].sign_language_sequence) = Len(pos_tagged_words[t])

\* A call is over whose input holds a token with a tag outside the closed
\* set and a word the dictionary does not have.
C11_Witness ==
    \E t \in Threads :
        /\ CallOver(t)
        /\ IsConversion(result[t])
        /\ \E i \in 1..Len(pos_tagged_words[t]) :
              /\ pos_tagged_words[t][i][2] \notin ClosedTags
              /\ normalize(pos_tagged_words[t][i][1]) \notin DOMAIN basic_signs

\* The buckets of a request that runs alone.
RECURSIVE CategorizedAlone(_, _, _)
CategorizedAlone(cats, words, i) ==
    IF i > Len(words) THEN cats
    ELSE CategorizedAlone(categorize_step(cats, words, i), words, i + 1)

\* The result of a request that runs alone on the converter.
ResultAlone(words) ==
    LET cats == CategorizedAlone(EmptyCategories, words, 1)
        seq == final_sequence_of(words, reorder_for_sign_language(cats))
    IN  [ original_sentence |-> JoinWords([i \in 1..Len(words) |-> words[i][1]]),
          sign_language_sequence |-> seq,
          structure_analysis |-> create_analysis(words, cats, seq),
          pos_analysis |-> pos_analysis_of(words, cats),
          word_details |-> create_word_details(basic_signs, words),
          reorder_strategy |-> "Vietnamese SVO -> Sign Language SOV" ]

\* C12: a request that runs interleaved with another one on the shared
\* converter returns what it returns when it runs alone.
C12_RequestsIsolated ==
    \A t \in Threads :
        Converted(t) => result[t] = ResultAlone(pos_tagged_words[t])

\* Both requests are past the classifier with different inputs, one of
\* them returned, the other still running.
C12_Witness ==
    \E t, u \in Threads :
        /\ t # u
        /\ Converted(t)
        /\ pc[u] \in {"reorder", "details", "analysis", "return"}
        /\ pos_tagged_words[t] # pos_tagged_words[u]
        /\ Len(pos_tagged_words[t]) = MaxLenConc
        /\ Len(pos_tagged_words[u]) = MaxLenConc

\* C13: the structural report has word_count = number of input tokens,
\* reordered_count = length of the gloss sequence, the six counts equal to
\* the sizes of the returned buckets of the same names, and the same
\* reordering-strategy record for every input.
C13_AnalysisReport ==
    \A t \in Threads :
        Converted(t) =>
            LET a == result[t].structure_analysis
                buckets == result[t].pos_analysis
            IN  /\ a.word_count = Len(pos_tagged_words[t])
                /\ a.reordered_count = Len(result[t].sign_language_sequence)
                /\ DOMAIN a.structure_changes =
                       { "subjects", "verbs", "objects", "adjectives",
                         "time_expressions", "others" }
                /\ \A b \in DOMAIN a.structure_changes :
                       a.structure_changes[b] = Len(buckets[b])
                /\ a.reorder_strategy =
                       [ original_order |-> "SVO (Subject-Verb-Object)",
                         sign_language_order |-> "SOV (Subject-Object-Verb)",
                         time_placement |-> "Beginning of sentence",
                         adjective_placement |-> "After subject" ]

\* A report of a request with a time expression, a pronoun, a subject and
\* nothing else.
C13_Witness ==
    \E t \in Threads :
        /\ Converted(t)
        /\ Len(pos_tagged_words[t]) = 3
        /\ result[t].structure_analysis.structure_changes.time_expressions = 1
        /\ result[t].structure_analysis.structure_changes.subjects = 1
        /\ Len(result[t].pos_analysis["pronouns"]) = 1

\* The key a surface word is looked up under: lowercased, every space
\* replaced by '_'.
NormalizedKey(word) ==
    [k \in 1..Len(word) |-> IF word[k] = " " THEN "_" ELSE LowerChar(word[k])]

\* WORD[TAG]
BracketedFallback(word, tag) ==
    [k \in 1..Len(word) |-> UpperChar(word[k])] \o <<"[", tag, "]">>

\* C14: the per-word detail has one record per input token in input order,
\* with the 1-based input position, the surface word and tag, a hit flag
\* that is true exactly when the normalized word is a key of the
\* dictionary, and as resolved gloss the stored value on a hit and
\* WORD[TAG] on a miss.
C14_WordDetails ==
    \A t \in Threads :
        Converted(t) =>
            LET words == pos_tagged_words[t]
                details == result[t].word_details
            IN  /\ Len(details) = Len(words)
                /\ \A i \in 1..Len(words) :
                      LET hit == NormalizedKey(words[i][1]) \in DOMAIN basic_signs IN
                      /\ details[i].index = i
                      /\ details[i].original_word = words[i][1]
                      /\ details[i].pos_tag = words[i][2]
                      /\ details[i].has_dictionary_definition = hit
                      /\ details[i].in_dictionary = hit
                      /\ details[i].dictionary_action =
                            IF hit THEN basic_signs[NormalizedKey(words[i][1])]
                            ELSE BracketedFallback(words[i][1], words[i][2])

\* A returned request whose gloss sequence is not in input order, with a
\* multi-word token the dictionary has and a token it lacks.
C14_Witness ==
    \E t \in Threads :
        /\ Converted(t)
        /\ result[t].sign_language_sequence #
               [i \in 1..Len(pos_tagged_words[t]) |-> pos_tagged_words[t][i][1]]
        /\ \E i, j \in 1..Len(pos_tagged_words[t]) :
              /\ \E k \in 1..Len(pos_tagged_words[t][i][1]) :
                     pos_tagged_words[t][i][1][k] = " "
              /\ result[t].word_details[i].has_dictionary_definition
              /\ ~result[t].word_details[j].has_dictionary_definition

\* C15: converting the empty token sequence gives an empty gloss sequence,
\* every bucket empty, every reported count zero, an empty per-word detail
\* list, and no error.
C15_EmptyInput ==
    \A t \in Threads :
        (CallOver(t) /\ pos_tagged_words[t] = <<>>) =>
            /\ ~IsError(result[t])
            /\ IsConversion(result[t])
            /\ result[t].sign_language_sequence = <<>>
            /\ \A b \in DOMAIN result[t].pos_analysis : result[t].pos_analysis[b] = <<>>
            /\ result[t].structure_analysis.word_count = 0
            /\ result[t].structure_analysis.reordered_count = 0
            /\ \A b \in DOMAIN result[t].structure_analysis.structure_changes :
                   result[t].structure_analysis.structure_changes[b] = 0
            /\ result[t].word_details = <<>>

\* The call with the empty sequence has returned.
C15_Witness ==
    \E t \in Threads :
        /\ pc[t] = "returned"
        /\ caller[t] = "direct"
        /\ pos_tagged_words[t] = <<>>
        /\ IsConversion(result[t])
        /\ DOMAIN result[t].pos_analysis = BucketNames

\* The request is a PRON token, then a VERB token, then a NOUN token.
IsPronVerbNoun(words) ==
    /\ Len(words) = 3
    /\ words[1][2] = "PRON"
    /\ words[2][2] = "VERB"
    /\ words[3][2] = "NOUN"

\* C16: for the input PRON, VERB, NOUN the subject bucket is the PRON
\* token, the verb bucket the VERB token, the object bucket the NOUN
\* token, the reordered sequence is PRON, NOUN, VERB, and when the three
\* words are in the dictionary the gloss sequence is their stored glosses
\* in that order.
C16_PronVerbNoun ==
    \A t \in Threads :
        (Converted(t) /\ IsPronVerbNoun(pos_tagged_words[t])) =>
            LET words == pos_tagged_words[t] IN
            /\ result[t].pos_analysis["subjects"] = <<words[1]>>
            /\ result[t].pos_analysis["verbs"] = <<words[2]>>
            /\ result[t].pos_analysis["objects"] = <<words[3]>>
            /\ reordered_structure[t] = <<1, 3, 2>>
            /\ (\A i \in 1..3 : NormalizedKey(words[i][1]) \in DOMAIN basic_signs)
                  => result[t].sign_language_sequence =
                        << basic_signs[NormalizedKey(words[1][1])],
                           basic_signs[NormalizedKey(words[3][1])],
                           basic_signs[NormalizedKey(words[2][1])] >>

\* The request is an ADJ token followed by one NOUN token whose surface
\* word has an internal space.
IsAdjThenMultiWordNoun(words) ==
    /\ Len(words) = 2
    /\ words[1][2] = "ADJ"
    /\ words[2][2] = "NOUN"
    /\ \E k \in 2..(Len(words[2][1]) - 1) : words[2][1][k] = " "

\* A call of the legacy converter, the one with a substitution step, is
\* over for such a request and no word of it is in the dictionary.
LegacyFallbackCase(t) ==
    /\ CallOver(t)
    /\ caller[t] = "legacy"
    /\ IsConversion(result[t])
    /\ IsAdjThenMultiWordNoun(pos_tagged_words[t])
    /\ \A i \in 1..2 : NormalizedKey(pos_tagged_words[t][i][1]) \notin DOMAIN sign_dictionary

UppercasedWord(word) == [k \in 1..Len(word) |-> UpperChar(word[k])]

UppercasedJoinedWord(word) ==
    [k \in 1..Len(word) |-> IF word[k] = " " THEN "_" ELSE UpperChar(word[k])]

NounPositions(words) == { i \in 1..Len(words) : words[i][2] \in {"NOUN", "PROPN"} }

\* Positions a bucket refers to.
Members(bucket) == { bucket[k] : k \in 1..Len(bucket) }

\* C18: the subject bucket holds at most one token; the first NOUN/PROPN
\* token is in it exactly when no VERB token precedes it, and every other
\* NOUN/PROPN token is in the object bucket, with or without a verb in the
\* input.
C18_AtMostOneSubject ==
    \A t \in Threads :
        (CallOver(t) /\ IsConversion(result[t])) =>
            LET words == pos_tagged_words[t]
                nouns == NounPositions(words)
                subjects == categories[t]["subjects"]
                objects == categories[t]["objects"]
            IN  /\ Len(subjects) <= 1
                /\ Len(result[t].pos_analysis["subjects"]) <= 1
                /\ Members(subjects) \cup Members(objects) = nouns
                /\ Len(subjects) + Len(objects) = Cardinality(nouns)
                /\ nouns # {} =>
                      LET first == CHOOSE i \in nouns : \A j \in nouns : i <= j IN
                      /\ Members(subjects) \subseteq {first}
                      /\ first \in Members(subjects)
                            <=> (\A j \in 1..(first - 1) : words[j][2] # "VERB")

\* Two PROPN tokens and no verb: the first is the subject, the second the
\* object.
C18_Witness ==
    \E t \in Threads :
        /\ CallOver(t)
        /\ IsConversion(result[t])
        /\ Len(pos_tagged_words[t]) = 2
        /\ pos_tagged_words[t][1][2] = "PROPN"
        /\ pos_tagged_words[t][2][2] = "PROPN"
        /\ categories[t]["subjects"] = <<1>>
        /\ categories[t]["objects"] = <<2>>

\* The classifier has filled the buckets of the request of t.
Classified(t) == Categorized(t) \/ Converted(t)

\* Where the token at position i lies relative to the first VERB token.
SideOfFirstVerb(words, i) ==
    LET verbs == { j \in 1..Len(words) : words[j][2] = "VERB" } IN
    IF verbs = {} THEN "before"
    ELSE LET first == CHOOSE j \in verbs : \A k \in verbs : j <= k
         IN  IF i < first THEN "before" ELSE IF i = first THEN "at" ELSE "after"

\* A NOUN or PROPN token precedes position i.
HasEarlierNoun(words, i) == \E j \in 1..(i - 1) : words[j][2] \in {"NOUN", "PROPN"}

\* The lowercased surface word at position i is a time expression.
IsTimeWord(words, i) ==
    [k \in 1..Len(words[i][1]) |-> LowerChar(words[i][1][k])] \in time_words

\* C19 as claimed: two tokens with the same tag on the same side of the
\* first verb, in one input or in two, are in the same bucket.
C19_TagAndSideDecide ==
    \A t, u \in Threads :
        (Classified(t) /\ Classified(u)) =>
            \A i \in 1..Len(pos_tagged_words[t]), j \in 1..Len(pos_tagged_words[u]) :
                ( /\ pos_tagged_words[t][i][2] = pos_tagged_words[u][j][2]
                  /\ SideOfFirstVerb(pos_tagged_words[t], i)
                        = SideOfFirstVerb(pos_tagged_words[u], j) )
                    => OriginBucket(t, i) = OriginBucket(u, j)

\* C19 as amended: every token is in a bucket, and two tokens with the
\* same tag on the same side of the first verb, both with or both without
\* an earlier NOUN/PROPN token, and both or neither a time expression,
\* are in the same bucket, in one input or in two.
C19_KeyDecides ==
    \A t, u \in Threads :
        (Classified(t) /\ Classified(u)) =>
            /\ \A i \in 1..Len(pos_tagged_words[t]) : SlotsHolding(categories[t], i) # {}
            /\ \A i \in 1..Len(pos_tagged_words[t]), j \in 1..Len(pos_tagged_words[u]) :
                  ( /\ pos_tagged_words[t][i][2] = pos_tagged_words[u][j][2]
                    /\ SideOfFirstVerb(pos_tagged_words[t], i)
                          = SideOfFirstVerb(pos_tagged_words[u], j)
                    /\ HasEarlierNoun(pos_tagged_words[t], i)
                          = HasEarlierNoun(pos_tagged_words[u], j)
                    /\ IsTimeWord(pos_tagged_words[t], i)
                          = IsTimeWord(pos_tagged_words[u], j) )
                      => OriginBucket(t, i) = OriginBucket(u, j)

\* Two different requests are classified, each with a NOUN token that has
\* no earlier noun and no verb before it, at different positions.
C19_Witness ==
    \E t, u \in Threads :
        /\ t # u
        /\ Classified(t)
        /\ Classified(u)
        /\ pos_tagged_words[t] # pos_tagged_words[u]
        /\ \E i \in 1..Len(pos_tagged_words[t]), j \in 1..Len(pos_tagged_words[u]) :
              /\ i # j
              /\ pos_tagged_words[t][i][2] = "NOUN"
              /\ pos_tagged_words[u][j][2] = "NOUN"
              /\ ~HasEarlierNoun(pos_tagged_words[t], i)
              /\ ~HasEarlierNoun(pos_tagged_words[u], j)
              /\ SideOfFirstVerb(pos_tagged_words[t], i) = "before"
              /\ SideOfFirstVerb(pos_tagged_words[u], j) = "before"
              /\ OriginBucket(t, i) = "subjects"
              /\ OriginBucket(u, j) = "subjects"


\* C20: whatever the number and the interleaving of the calls to
\* VietnameseSignLanguageConverter() and get_instance(), all the calls
\* return one and the same instance, and the body of the initialization
\* (is_initialized set, dictionary loaded) executes exactly once: never
\* twice, and once as soon as a call has returned.
C20_OneInstanceInitOnce ==
    /\ Cardinality(returned) <= 1
    /\ init_runs <= 1
    /\ returned # {} => init_runs = 1


\* Threads inside reload_dictionary.
Reloading == { t \in Threads : pc[t] \in {"r_load", "r_publish", "r_count"} }

\* C21: the reload of the dictionary is serialized against itself: never
\* are two executions of reload_dictionary in flight together, and the
\* store is at all times the mapping built by one complete load of the
\* dictionary file.
C21_ReloadSerialized ==
    /\ Cardinality(Reloading) <= 1
    /\ \E f \in ReloadFiles :
           sign_dictionary = legacy_load_dictionary_from_file(f)


\* The source words of the entries of a dictionary source: of the file when
\* it can be read, of the seed mapping otherwise.
SourceWords(file) ==
    IF file.kind = "text"
    THEN { Strip(SplitFirst(Strip(file.lines[i]), "=")[1]) :
               i \in { j \in 1..Len(file.lines) : ValidLine(file.lines[j]) } }
    ELSE DOMAIN get_fallback_dictionary

\* C22: every key of the store after the load is pre-normalized (lowercase,
\* inner spaces replaced by the joining character), and the normalized
\* form of the source word of every entry of the source is a key of the
\* store.
C22_KeysPreNormalized ==
    is_initialized =>
        /\ \A k \in DOMAIN basic_signs : k = normalize(k)
        /\ \A w \in SourceWords(dict_file) : normalize(w) \in DOMAIN basic_signs


\* The valid lines of a dictionary file, by position.
ValidLines(file) == { i \in 1..Len(file.lines) : ValidLine(file.lines[i]) }

\* The word and the gloss a line of the file is written with.
LineWord(file, i) == Strip(SplitFirst(Strip(file.lines[i]), "=")[1])
LineGloss(file, i) == Strip(SplitFirst(Strip(file.lines[i]), "=")[2])

\* Every valid line of the file has its entry in the core store, whatever
\* lines surround it, and the other lines add nothing.
CoreLinesContribute(file, store) ==
    /\ DOMAIN store = { Lower(LineWord(file, i)) : i \in ValidLines(file) }
    /\ \A i \in ValidLines(file) :
           \E j \in ValidLines(file) :
               /\ Lower(LineWord(file, j)) = Lower(LineWord(file, i))
               /\ store[Lower(LineWord(file, i))] = Upper(LineGloss(file, j))

\* The same of the legacy store, whose loader keeps the case.
LegacyLinesContribute(file, store) ==
    /\ DOMAIN store = { LineWord(file, i) : i \in ValidLines(file) }
    /\ \A i \in ValidLines(file) :
           \E j \in ValidLines(file) :
               /\ LineWord(file, j) = LineWord(file, i)
               /\ store[LineWord(file, i)] = LineGloss(file, j)

\* C23: while the dictionary file is loaded, blank lines and comment
\* lines are ignored and a malformed line (no "=", empty word or empty
\* gloss) is skipped without ending the load: every valid line before
\* and after it has its entry in the mapping, in both converters.
C23_MalformedLinesSkipped ==
    dict_file.kind = "text" =>
        /\ is_initialized => CoreLinesContribute(dict_file, basic_signs)
        /\ legacy_initialized => LegacyLinesContribute(dict_file, sign_dictionary)

\* Both converters have loaded a file with a malformed line between two
\* valid lines.
C23_Witness ==
    /\ is_initialized
    /\ legacy_initialized
    /\ dict_file.kind = "text"
    /\ Len(dict_file.lines) = 3
    /\ ValidLine(dict_file.lines[1])
    /\ ~ValidLine(dict_file.lines[2])
    /\ Strip(dict_file.lines[2]) # <<>>
    /\ Head(Strip(dict_file.lines[2])) # "#"
    /\ ValidLine(dict_file.lines[3])
    /\ Cardinality(DOMAIN basic_signs) = 2


\* The key the core loader stores the entry of a line under.
CoreKey(file, i) == Lower(LineWord(file, i))

\* The last valid line of the file among those stored under one key.
LastLineOfKey(file, i) ==
    \A j \in ValidLines(file) :
        CoreKey(file, j) = CoreKey(file, i) => j <= i

\* C24: the loaded dictionary is one mapping with unique keys, and a word
\* that several lines of the file give under the same key has the gloss
\* of the last of these lines.
C24_LastWriteWins ==
    (is_initialized /\ dict_file.kind = "text") =>
        \A i \in ValidLines(dict_file) :
            LastLineOfKey(dict_file, i) =>
                /\ CoreKey(dict_file, i) \in DOMAIN basic_signs
                /\ basic_signs[CoreKey(dict_file, i)] = Upper(LineGloss(dict_file, i))

\* The core converter has loaded a file in which two lines give one word
\* two different glosses.
C24_Witness ==
    /\ is_initialized
    /\ dict_file.kind = "text"
    /\ \E i, j \in ValidLines(dict_file) :
           /\ i < j
           /\ CoreKey(dict_file, i) = CoreKey(dict_file, j)
           /\ Upper(LineGloss(dict_file, i)) # Upper(LineGloss(dict_file, j))
           /\ basic_signs[CoreKey(dict_file, j)] = Upper(LineGloss(dict_file, j))


\* The input has a VERB token and no NOUN or PROPN token before the first
\* one.
VerbLeadsNouns(words) ==
    /\ \E j \in 1..Len(words) : words[j][2] = "VERB"
    /\ \A i \in NounPositions(words) : SideOfFirstVerb(words, i) = "after"

\* C25: when no NOUN or PROPN token precedes the first VERB token, the
\* subject bucket is empty once the classification is over, every
\* NOUN/PROPN token is in the object bucket, and the conversion succeeds
\* all the same.
C25_NoSubjectBeforeVerb ==
    \A t \in Threads :
        (Classified(t) /\ VerbLeadsNouns(pos_tagged_words[t])) =>
            /\ categories[t]["subjects"] = <<>>
            /\ Members(categories[t]["objects"]) = NounPositions(pos_tagged_words[t])
            /\ Len(categories[t]["objects"]) = Cardinality(NounPositions(pos_tagged_words[t]))
            /\ CallOver(t) =>
                  /\ IsConversion(result[t])
                  /\ result[t].pos_analysis["subjects"] = <<>>
                  /\ Len(result[t].sign_language_sequence) = Len(pos_tagged_words[t])

\* A conversion is over whose input starts with its verb and goes on with
\* two nouns.
C25_Witness ==
    \E t \in Threads :
        /\ CallOver(t)
        /\ IsConversion(result[t])
        /\ Len(pos_tagged_words[t]) = 3
        /\ pos_tagged_words[t][1][2] = "VERB"
        /\ pos_tagged_words[t][2][2] = "NOUN"
        /\ pos_tagged_words[t][3][2] = "PROPN"
        /\ categories[t]["subjects"] = <<>>
        /\ categories[t]["objects"] = <<2, 3>>


\* Positions inside convert_to_sign_language, up to its return statement.
InConversion(t) ==
    pc[t] \in {"call", "categorize", "reorder", "details", "analysis", "return"}

\* C26: convert_to_sign_language and _create_analysis change neither their
\* inputs nor the shared state: no step of a conversion changes the input
\* token sequence or the dictionary store, and the step that builds the
\* report leaves the input tokens, the buckets and the gloss sequence as
\* they were.
C26_NoSideEffects ==
    [][ /\ basic_signs' = basic_signs
        /\ is_initialized' = is_initialized
        /\ \A t \in Threads :
              /\ InConversion(t) => pos_tagged_words'[t] = pos_tagged_words[t]
              /\ pc[t] = "analysis" =>
                    /\ categories'[t] = categories[t]
                    /\ final_sequence'[t] = final_sequence[t]
                    /\ reordered_structure'[t] = reordered_structure[t]
      ]_vars

\* The report of a request of two tokens has been built while the other
\* request is still in the converter.
C26_Witness ==
    \E t, u \in Threads :
        /\ t # u
        /\ pc[t] = "return"
        /\ Len(pos_tagged_words[t]) = 2
        /\ analysis[t].word_count = 2
        /\ analysis[t].reordered_count = 2
        /\ InConversion(u)


\* C27: tag_sentence never raises.  It returns the empty sequence when the
\* tagger is not initialized or the tagging call fails; otherwise it
\* returns one (word, tag) pair per tagged word, in order, with the word
\* kept, every tag in the closed set of 16 tags, and the tag X for a
\* source tag the table does not have.
C27_TagSentenceTotal ==
    \A t \in Threads :
        pc[t] = "tagged" =>
            IF ~tagger_initialized \/ pos_tags_result[t].raises
            THEN formatted_tags[t] = <<>>
            ELSE LET tagged == pos_tags_result[t].tags IN
                 /\ Len(formatted_tags[t]) = Len(tagged)
                 /\ Cardinality(ClosedTags) = 16
                 /\ \A i \in 1..Len(tagged) :
                        /\ formatted_tags[t][i][1] = tagged[i][1]
                        /\ formatted_tags[t][i][2] \in ClosedTags
                        /\ tagged[i][2] \notin DOMAIN tag_mapping =>
                               formatted_tags[t][i][2] = "X"

\* An initialized tagger has returned two words, the first with a tag of
\* the table and the second with a tag the table does not have.
C27_Witness ==
    \E t \in Threads :
        /\ pc[t] = "tagged"
        /\ tagger_initialized
        /\ ~pos_tags_result[t].raises
        /\ Len(formatted_tags[t]) = 2
        /\ pos_tags_result[t].tags[1][2] = "Np"
        /\ formatted_tags[t][1][2] = "PROPN"
        /\ pos_tags_result[t].tags[2][2] = "Nc"
        /\ formatted_tags[t][2][2] = "X"


\* C28: under every interleaving of get_instance() calls and conversions,
\* a converter that a caller holds and sees with is_initialized = true has
\* its dictionary and its reorder strategy set, and a conversion that has
\* passed the initialization check never reads an unset dictionary.
C28_InitializedMeansLoaded ==
    /\ \A i \in returned :
           instances[i].is_initialized => instances[i].rules_set
    /\ \A t \in Threads :
           /\ pc[t] = "conv_details" => instances[self_obj[t]].rules_set
           /\ pc[t] = "conv_done" => result[t] # AttributeError


\* The order (as input positions) each implementation gives a sentence.
CoreOrder(words) ==
    reorder_for_sign_language(CategorizedAlone(EmptyCategories, words, 1))

LegacyOrder(words) ==
    legacy_reorder_for_sign_language(legacy_categorize_words(words))

\* The core converter puts no token of the sentence in its time bucket.
NoTimeToken(words) ==
    CategorizedAlone(EmptyCategories, words, 1)["time_expressions"] = <<>>

\* C29: the two converters agree outside the time bucket: for every
\* sentence in which the core converter classifies no token as a time
\* expression, the reordered token sequence of the legacy converter is the
\* reordered token sequence of the core converter.
C29_ConvertersAgree ==
    \A t \in Threads :
        (CallOver(t) /\ IsConversion(result[t]) /\ NoTimeToken(pos_tagged_words[t])) =>
            /\ caller[t] = "direct" =>
                   reordered_structure[t] = LegacyOrder(pos_tagged_words[t])
            /\ caller[t] = "legacy" =>
                   reordered_structure[t] = CoreOrder(pos_tagged_words[t])

\* The legacy converter has converted a sentence of three words without a
\* time expression that it does not leave in the order of the input.
C29_Witness ==
    \E t \in Threads :
        /\ CallOver(t)
        /\ caller[t] = "legacy"
        /\ IsConversion(result[t])
        /\ Len(pos_tagged_words[t]) = 3
        /\ NoTimeToken(pos_tagged_words[t])
        /\ reordered_structure[t] = <<3, 2, 1>>


\* The gloss the legacy substitution owes a surface word.
LegacyGloss(word) ==
    IF normalize(word) \in DOMAIN sign_dictionary
    THEN sign_dictionary[normalize(word)]
    ELSE Upper(word)

\* C30: the legacy _convert_vocabulary emits one gloss per reordered token,
\* in order: the value stored under the lowercased word with its spaces
\* replaced by "_" when that is a key of sign_dictionary, the uppercased
\* surface word otherwise; the output is as long as the input.
C30_OneGlossPerToken ==
    \A t \in Threads :
        (CallOver(t) /\ caller[t] = "legacy" /\ IsConversion(result[t])) =>
            LET words == pos_tagged_words[t]
                order == reordered_structure[t]
                glosses == result[t].sign_language_sequence
            IN  /\ Len(glosses) = Len(order)
                /\ Len(glosses) = Len(words)
                /\ \A k \in 1..Len(order) :
                       glosses[k] = LegacyGloss(words[order[k]][1])

\* A legacy conversion of three words is over in which one word was found
\* under its joined key, with a gloss that is not its uppercased form, and
\* another was not found.
C30_Witness ==
    \E t \in Threads :
        /\ CallOver(t)
        /\ caller[t] = "legacy"
        /\ IsConversion(result[t])
        /\ Len(pos_tagged_words[t]) = 3
        /\ \E i, j \in 1..3 :
              LET w == pos_tagged_words[t][i][1]
                  v == pos_tagged_words[t][j][1]
              IN  /\ normalize(w) \in DOMAIN sign_dictionary
                  /\ normalize(w) # Lower(w)
                  /\ sign_dictionary[normalize(w)] # Upper(w)
                  /\ normalize(v) \notin DOMAIN sign_dictionary


=========================================================================
